---- MODULE Spec2Model ----
(***************************************************************************)
(* Verification model of the DXF codec embedded in DXFImporter (ezdxf):    *)
(*   - lldxf/validator.py   entity_structure_validator                     *)
(*   - lldxf/tagger.py      tag_compiler                                   *)
(*   - entities/dxfgfx.py   entity_linker                                  *)
(*   - sections/table.py    Table                                          *)
(* Every component has its own specification; the variables of the other   *)
(* components rest at their idle values.                                   *)
(***************************************************************************)
EXTENDS Integers, Sequences, FiniteSets, TLC

\* ------------------------------------------------------------------------
\* Bounds of the model
\* ------------------------------------------------------------------------
MaxTags == 3
MaxIn == 4
MaxStream == 4
MaxEntities == 3
MaxVports == 4
MaxRefs == 2
MaxFrozen == 2
MaxBlock == 2
MaxSources == 2
MaxParts == 2

VARIABLES
    \* entity_structure_validator
    tags, vi, handle, app_data, xdata, xdata_list_level, app_data_closing_tag,
    embedded_object, vout, verr, verrAt, vpc,
    \* tag_compiler
    tagger, tpos, undo_tag, line, cout, cerr, cpc,
    \* entity_linker
    stream, lpos, main_entity, expected, prev, rets, links, lerr,
    \* Table
    entries, objects, entitydb, next_handle, terr, lastop, lastarg,
    \* ViewportTable
    vp_entries, vp_objects, vp_entitydb, vp_err, vp_op, vp_arg,
    \* Layer.rename
    rn_layers, rn_objects, rn_refs, rn_frozen, rn_err, rn_op, rn_call,
    \* virtual_block_reference_entities
    v_block, v_exists, v_scale, v_pos, v_seg, v_item, v_out, v_skipped, v_err, v_pc,
    \* explode_entity, explode_block_reference
    ex_objects, ex_db, ex_space, ex_result, ex_call, ex_err, ex_op,
    \* ProxyGraphic.virtual_entities
    pg_buffer, pg_index, pg_out, pg_log, pg_marker, pg_err, pg_pc,
    \* export_proxy_graphic, VBAProject.export_data
    bx_payload, bx_version, bx_done, pxg_tags, pxg_err, vba_tags,
    \* Matrix44
    mx_heap, mx_op, mx_args, mx_ret, mx_err,
    \* Dimension.export_entity
    dm_dimtype, dm_attribs, dm_version, dm_tags, dm_pc,
    \* plain_text (mtext.py)
    pt_text, pt_ret, pt_pc,
    \* ProxyGraphic chunk decoders: circular_arc, text2, _get_style
    pd_doc, pd_styles, pd_textstyles, pd_attr, pd_chunks, pd_pos, pd_out, pd_added, pd_err,
    \* virtual_lwpolyline_entities, virtual_polyline2d_entities
    pl_type, pl_points, pl_closed, pl_out, pl_pc,
    \* Layer: flags and transparency
    ly_flags, ly_doc, ly_appids, ly_xdata, ly_op, ly_err,
    \* MText: split_mtext_string and export_mtext
    ms_text, ms_size, ms_chunks, ms_tags, ms_pc

vvars == <<tags, vi, handle, app_data, xdata, xdata_list_level, app_data_closing_tag,
           embedded_object, vout, verr, verrAt, vpc>>
cvars == <<tagger, tpos, undo_tag, line, cout, cerr, cpc>>
lvars == <<stream, lpos, main_entity, expected, prev, rets, links, lerr>>
tvars == <<entries, objects, entitydb, next_handle, terr, lastop, lastarg>>
pvars == <<vp_entries, vp_objects, vp_entitydb, vp_err, vp_op, vp_arg>>
rvars == <<rn_layers, rn_objects, rn_refs, rn_frozen, rn_err, rn_op, rn_call>>
gvars == <<v_block, v_exists, v_scale, v_pos, v_seg, v_item, v_out, v_skipped, v_err, v_pc>>
evars == <<ex_objects, ex_db, ex_space, ex_result, ex_call, ex_err, ex_op>>
qvars == <<pg_buffer, pg_index, pg_out, pg_log, pg_marker, pg_err, pg_pc>>
bvars == <<bx_payload, bx_version, bx_done, pxg_tags, pxg_err, vba_tags>>
mvars == <<mx_heap, mx_op, mx_args, mx_ret, mx_err>>
dvars == <<dm_dimtype, dm_attribs, dm_version, dm_tags, dm_pc>>
xtvars == <<pt_text, pt_ret, pt_pc>>
kvars == <<pd_doc, pd_styles, pd_textstyles, pd_attr, pd_chunks, pd_pos, pd_out, pd_added, pd_err>>
svars == <<pl_type, pl_points, pl_closed, pl_out, pl_pc>>
yvars == <<ly_flags, ly_doc, ly_appids, ly_xdata, ly_op, ly_err>>
zvars == <<ms_text, ms_size, ms_chunks, ms_tags, ms_pc>>
\* the components modelled after the table
xvars == <<pvars, rvars, gvars, evars, qvars, bvars, mvars, dvars, xtvars, kvars, svars, yvars, zvars>>
vars == <<vvars, cvars, lvars, tvars, xvars>>
\* every component but the one named
but_pvars == <<vvars, cvars, lvars, tvars, rvars, gvars, evars, qvars, bvars, mvars, dvars, xtvars, kvars, svars, yvars, zvars>>
but_rvars == <<vvars, cvars, lvars, tvars, pvars, gvars, evars, qvars, bvars, mvars, dvars, xtvars, kvars, svars, yvars, zvars>>
but_gvars == <<vvars, cvars, lvars, tvars, pvars, rvars, evars, qvars, bvars, mvars, dvars, xtvars, kvars, svars, yvars, zvars>>
but_evars == <<vvars, cvars, lvars, tvars, pvars, rvars, gvars, qvars, bvars, mvars, dvars, xtvars, kvars, svars, yvars, zvars>>
but_qvars == <<vvars, cvars, lvars, tvars, pvars, rvars, gvars, evars, bvars, mvars, dvars, xtvars, kvars, svars, yvars, zvars>>
but_bvars == <<vvars, cvars, lvars, tvars, pvars, rvars, gvars, evars, qvars, mvars, dvars, xtvars, kvars, svars, yvars, zvars>>
but_mvars == <<vvars, cvars, lvars, tvars, pvars, rvars, gvars, evars, qvars, bvars, dvars, xtvars, kvars, svars, yvars, zvars>>
but_dvars == <<vvars, cvars, lvars, tvars, pvars, rvars, gvars, evars, qvars, bvars, mvars, xtvars, kvars, svars, yvars, zvars>>
but_xtvars == <<vvars, cvars, lvars, tvars, pvars, rvars, gvars, evars, qvars, bvars, mvars, dvars, kvars, svars, yvars, zvars>>
but_kvars == <<vvars, cvars, lvars, tvars, pvars, rvars, gvars, evars, qvars, bvars, mvars, dvars, xtvars, svars, yvars, zvars>>
but_svars == <<vvars, cvars, lvars, tvars, pvars, rvars, gvars, evars, qvars, bvars, mvars, dvars, xtvars, kvars, yvars, zvars>>
but_yvars == <<vvars, cvars, lvars, tvars, pvars, rvars, gvars, evars, qvars, bvars, mvars, dvars, xtvars, kvars, svars, zvars>>
but_zvars == <<vvars, cvars, lvars, tvars, pvars, rvars, gvars, evars, qvars, bvars, mvars, dvars, xtvars, kvars, svars, yvars>>

Tag(c, v) == [code |-> c, value |-> v]

Min(S) == CHOOSE x \in S : \A y \in S : x <= y
Max(S) == CHOOSE x \in S : \A y \in S : x >= y

RECURSIVE SeqsUpTo(_, _)
SeqsUpTo(S, n) ==
    IF n = 0 THEN {<<>>}
    ELSE LET shorter == SeqsUpTo(S, n - 1)
         IN  shorter \cup {Append(s, x) : s \in {t \in shorter : Len(t) = n - 1}, x \in S}

\* ========================================================================
\* lldxf/validator.py: entity_structure_validator
\* A string value is the sequence of its characters (names are one token).
\* ========================================================================
APP_DATA_MARKER == 102
XDATA_MARKER == 1001
EMBEDDED_OBJ_MARKER == 101
EMBEDDED_OBJ_STR == <<"Embedded Object">>
NoHandle == <<"???">>

is_embedded_object_marker(tag) ==
    tag.code = EMBEDDED_OBJ_MARKER /\ tag.value = EMBEDDED_OBJ_STR

startswith_brace(value) == Len(value) > 0 /\ value[1] = "{"

\* the tags an entity body is drawn from
BodyTags ==
    { Tag(5, <<"H">>), Tag(8, <<"0">>),
      Tag(102, <<"{", "A">>), Tag(102, <<"{", "B">>), Tag(102, <<"}">>), Tag(102, <<"A", "}">>),
      Tag(1000, <<"s">>), Tag(1001, <<"APP">>),
      Tag(1002, <<"{">>), Tag(1002, <<"}">>), Tag(1002, <<"x">>),
      Tag(EMBEDDED_OBJ_MARKER, EMBEDDED_OBJ_STR) }

EntityTypes == {<<"LINE">>, <<"XRECORD">>}

dxftype == tags[1].value

ValidatorIdle ==
    /\ tags = <<>> /\ vi = 0 /\ handle = NoHandle /\ app_data = FALSE /\ xdata = FALSE
    /\ xdata_list_level = 0 /\ app_data_closing_tag = <<"}">> /\ embedded_object = FALSE
    /\ vout = <<>> /\ verr = "none" /\ verrAt = 0 /\ vpc = "idle"

ValidatorInit ==
    /\ tags \in {<<Tag(0, t)>> \o body : t \in EntityTypes, body \in SeqsUpTo(BodyTags, MaxTags)}
    /\ vi = 1 /\ handle = NoHandle /\ app_data = FALSE /\ xdata = FALSE
    /\ xdata_list_level = 0 /\ app_data_closing_tag = <<"}">> /\ embedded_object = FALSE
    /\ vout = <<>> /\ verr = "none" /\ verrAt = 0 /\ vpc = "loop"

XDataCheck_AnyGroupCode(tag, is_xdata, level) ==
    IF ~is_xdata THEN [err |-> "none", level |-> level]
    ELSE IF tag.code # 1002 THEN [err |-> "none", level |-> level]
    ELSE IF tag.value # <<"{">> /\ tag.value # <<"}">>
         THEN [err |-> "DXFXDataError", level |-> level]
    ELSE LET l == IF tag.value = <<"{">> THEN level + 1 ELSE level - 1
         IN  [err |-> IF l < 0 THEN "DXFXDataError" ELSE "none", level |-> l]

\* lines 131-149: the XDATA checks on one tag; the result is the error raised
\* (or "none") and the list level after the tag
XDataCheck(tag, is_xdata, level) ==
    IF ~is_xdata THEN [err |-> "none", level |-> level]
    ELSE IF tag.code < 1000 THEN [err |-> "DXFXDataError", level |-> level]
    ELSE IF tag.code # 1002 THEN [err |-> "none", level |-> level]
    ELSE IF tag.value # <<"{">> /\ tag.value # <<"}">>
         THEN [err |-> "DXFXDataError", level |-> level]
    ELSE LET l == IF tag.value = <<"{">> THEN level + 1 ELSE level - 1
         IN  [err |-> IF l < 0 THEN "DXFXDataError" ELSE "none", level |-> l]

AppDataCheck_NestingAllowed(tag, is_app_data, closing_tag, type) ==
    IF tag.code # APP_DATA_MARKER
    THEN [err |-> "none", app_data |-> is_app_data, closing |-> closing_tag]
    ELSE IF startswith_brace(tag.value)
    THEN [err |-> "none", app_data |-> TRUE, closing |-> Tail(tag.value) \o <<"}">>]
    ELSE IF tag.value = <<"}">> \/ tag.value = closing_tag
    THEN [err |-> IF ~is_app_data THEN "DXFAppDataError" ELSE "none",
          app_data |-> FALSE, closing |-> <<"}">>]
    ELSE [err |-> IF type # <<"XRECORD">> THEN "DXFAppDataError" ELSE "none",
          app_data |-> is_app_data, closing |-> closing_tag]

AppDataCheck_GenericClosingOnly(tag, is_app_data, closing_tag, type) ==
    IF tag.code # APP_DATA_MARKER
    THEN [err |-> "none", app_data |-> is_app_data, closing |-> closing_tag]
    ELSE IF startswith_brace(tag.value)
    THEN [err |-> IF is_app_data THEN "DXFAppDataError" ELSE "none",
          app_data |-> TRUE, closing |-> Tail(tag.value) \o <<"}">>]
    ELSE IF tag.value = <<"}">>
    THEN [err |-> IF ~is_app_data THEN "DXFAppDataError" ELSE "none",
          app_data |-> FALSE, closing |-> <<"}">>]
    ELSE [err |-> IF type # <<"XRECORD">> THEN "DXFAppDataError" ELSE "none",
          app_data |-> is_app_data, closing |-> closing_tag]

\* lines 151-171: the APP DATA checks on one tag
AppDataCheck(tag, is_app_data, closing_tag, type) ==
    IF tag.code # APP_DATA_MARKER
    THEN [err |-> "none", app_data |-> is_app_data, closing |-> closing_tag]
    ELSE IF startswith_brace(tag.value)
    THEN [err |-> IF is_app_data THEN "DXFAppDataError" ELSE "none",
          app_data |-> TRUE, closing |-> Tail(tag.value) \o <<"}">>]
    ELSE IF tag.value = <<"}">> \/ tag.value = closing_tag
    THEN [err |-> IF ~is_app_data THEN "DXFAppDataError" ELSE "none",
          app_data |-> FALSE, closing |-> <<"}">>]
    ELSE [err |-> IF type # <<"XRECORD">> THEN "DXFAppDataError" ELSE "none",
          app_data |-> is_app_data, closing |-> closing_tag]

\* lines 175-180: the first (1001, APPID) tag starts the XDATA section
XDataStart(tag, is_xdata, is_app_data) ==
    IF tag.code = XDATA_MARKER /\ is_xdata = FALSE
    THEN [err |-> IF is_app_data THEN "DXFAppDataError" ELSE "none", xdata |-> TRUE]
    ELSE [err |-> "none", xdata |-> is_xdata]

\* the validator raises: nothing more is yielded
ValidatorRaise(kind, at) ==
    /\ verr' = kind /\ verrAt' = at /\ vpc' = "done"
    /\ UNCHANGED <<tags, vi, vout>>

\* lines 120-181: one iteration of the loop over the tags
ValidateTag ==
    /\ vpc = "loop" /\ vi <= Len(tags)
    /\ LET tag == tags[vi]
           emb == embedded_object \/ is_embedded_object_marker(tag)
           xr == XDataCheck(tag, xdata, xdata_list_level)
           ar == AppDataCheck(tag, app_data, app_data_closing_tag, dxftype)
           sr == XDataStart(tag, xdata, ar.app_data)
       IN  /\ handle' = IF tag.code = 5 /\ handle = NoHandle THEN tag.value ELSE handle
           /\ embedded_object' = emb
           /\ IF emb
              THEN /\ vout' = Append(vout, tag) /\ vi' = vi + 1
                   /\ UNCHANGED <<tags, app_data, xdata, xdata_list_level,
                                  app_data_closing_tag, verr, verrAt, vpc>>
              ELSE IF xr.err # "none"
              THEN /\ ValidatorRaise(xr.err, vi)
                   /\ xdata_list_level' = xr.level
                   /\ UNCHANGED <<app_data, xdata, app_data_closing_tag>>
              ELSE IF ar.err # "none"
              THEN /\ ValidatorRaise(ar.err, vi)
                   /\ xdata_list_level' = xr.level
                   /\ UNCHANGED <<app_data, xdata, app_data_closing_tag>>
              ELSE IF sr.err # "none"
              THEN /\ ValidatorRaise(sr.err, vi)
                   /\ xdata_list_level' = xr.level
                   /\ xdata' = sr.xdata
                   /\ app_data' = ar.app_data /\ app_data_closing_tag' = ar.closing
              ELSE /\ vout' = Append(vout, tag) /\ vi' = vi + 1
                   /\ xdata_list_level' = xr.level
                   /\ app_data' = ar.app_data /\ app_data_closing_tag' = ar.closing
                   /\ xdata' = sr.xdata
                   /\ UNCHANGED <<tags, verr, verrAt, vpc>>
    /\ UNCHANGED <<cvars, lvars, tvars, xvars>>

ValidateEnd_NoListLevelCheck ==
    /\ vpc = "loop" /\ vi > Len(tags)
    /\ IF app_data
       THEN ValidatorRaise("DXFAppDataError", vi)
       ELSE /\ vpc' = "done" /\ UNCHANGED <<tags, vi, vout, verr, verrAt>>
    /\ UNCHANGED <<handle, app_data, xdata, xdata_list_level, app_data_closing_tag,
                   embedded_object>>
    /\ UNCHANGED <<cvars, lvars, tvars, xvars>>

\* lines 183-195: the checks after the last tag
ValidateEnd ==
    /\ vpc = "loop" /\ vi > Len(tags)
    /\ IF app_data
       THEN ValidatorRaise("DXFAppDataError", vi)
       ELSE IF xdata /\ xdata_list_level # 0
       THEN ValidatorRaise("DXFXDataError", vi)
       ELSE /\ vpc' = "done" /\ UNCHANGED <<tags, vi, vout, verr, verrAt>>
    /\ UNCHANGED <<handle, app_data, xdata, xdata_list_level, app_data_closing_tag,
                   embedded_object>>
    /\ UNCHANGED <<cvars, lvars, tvars, xvars>>

\* ========================================================================
\* Structure of an entity tag list, stated on the list itself.
\* `lim` bounds the part looked at: the tags at the indices below lim.
\* ========================================================================
APP_ERROR == "DXFAppDataError"
XDATA_ERROR == "DXFXDataError"

\* index of the first embedded-object marker (Len + 1: none)
EmbIdx(s) ==
    LET E == {i \in DOMAIN s : is_embedded_object_marker(s[i])}
    IN  IF E = {} THEN Len(s) + 1 ELSE Min(E)

\* index of the (1001, APPID) tag that starts the XDATA section (lim: none)
XIdx(s, lim) ==
    LET Xs == {i \in 1..(lim - 1) : s[i].code = XDATA_MARKER}
    IN  IF Xs = {} THEN lim ELSE Min(Xs)

\* index of the first tag with an extended group code (lim: none)
FirstExtended(s, lim) ==
    LET Xs == {i \in 1..(lim - 1) : s[i].code >= 1000}
    IN  IF Xs = {} THEN lim ELSE Min(Xs)

A102(s, lim) == {i \in 1..(lim - 1) : s[i].code = APP_DATA_MARKER}
IsOpening(s, i) == s[i].code = APP_DATA_MARKER /\ startswith_brace(s[i].value)

\* the last opening marker before index i (0: none)
LastOpening(s, lim, i) ==
    LET Os == {j \in A102(s, lim) : j < i /\ IsOpening(s, j)}
    IN  IF Os = {} THEN 0 ELSE Max(Os)

\* tag k closes the section opened at L: the generic (102, '}') or 'APPID}'
Closes(s, L, k) ==
    /\ s[k].code = APP_DATA_MARKER /\ ~IsOpening(s, k)
    /\ s[k].value \in {<<"}">>, Tail(s[L].value) \o <<"}">>}

\* an APP-DATA section is open when tag i arrives
OpenAt(s, lim, i) ==
    LET L == LastOpening(s, lim, i)
    IN  /\ L # 0
        /\ \A k \in A102(s, lim) : (L < k /\ k < i) => ~Closes(s, L, k)

\* tag i is a closing marker: generic, or the closing value of the open section
IsClosing(s, lim, i) ==
    /\ s[i].code = APP_DATA_MARKER /\ ~IsOpening(s, i)
    /\ \/ s[i].value = <<"}">>
       \/ OpenAt(s, lim, i) /\ Closes(s, LastOpening(s, lim, i), i)

NoNesting(s, lim) == \A i \in A102(s, lim) : IsOpening(s, i) => ~OpenAt(s, lim, i)
EachClosed(s, lim) ==
    \A i \in A102(s, lim) : IsOpening(s, i) => \E k \in A102(s, lim) : k > i /\ Closes(s, i, k)
NoStrayClosing(s, lim) == \A i \in A102(s, lim) : s[i].value = <<"}">> => OpenAt(s, lim, i)
BalancedAppData(s, lim) == NoNesting(s, lim) /\ EachClosed(s, lim) /\ NoStrayClosing(s, lim)

\* the tags of the XDATA section: after the 1001 tag, below lim
XRange(s, lim) == {i \in 1..(lim - 1) : XIdx(s, lim) < i}
IsListMarker(s, i) == s[i].code = 1002 /\ s[i].value \in {<<"{">>, <<"}">>}
Depth(s, lim, i) ==
    Cardinality({j \in XRange(s, lim) : j <= i /\ s[j].code = 1002 /\ s[j].value = <<"{">>})
    - Cardinality({j \in XRange(s, lim) : j <= i /\ s[j].code = 1002 /\ s[j].value = <<"}">>})
BalancedXData(s, lim) ==
    /\ \A i \in XRange(s, lim) : Depth(s, lim, i) >= 0
    /\ Depth(s, lim, lim - 1) = 0

Balanced(s, lim) == BalancedAppData(s, lim) /\ BalancedXData(s, lim)

\* every structure rule holds of the tags before an embedded-object marker
ValidStructure(s) ==
    LET E == EmbIdx(s)
    IN  /\ Balanced(s, E)
        /\ s[1].value # <<"XRECORD">> =>
               \A i \in A102(s, E) : IsOpening(s, i) \/ IsClosing(s, E, i)
        /\ \A i \in XRange(s, E) :
               s[i].code >= 1000 /\ (s[i].code = 1002 => IsListMarker(s, i))

Remove(s, i) == [j \in 1..(Len(s) - 1) |-> IF j < i THEN s[j] ELSE s[j + 1]]

\* tag i is an APP-DATA marker or a list marker of the XDATA section
IsMarker(s, i) ==
    LET E == EmbIdx(s)
    IN  \/ IsOpening(s, i) \/ IsClosing(s, E, i)
        \/ i \in XRange(s, E) /\ IsListMarker(s, i)

\* the list is valid but for the one marker at i
OneUnmatched(s, i) ==
    /\ i \in 2..(EmbIdx(s) - 1)
    /\ IsMarker(s, i)
    /\ ~ValidStructure(s)
    /\ ValidStructure(Remove(s, i))

Accepted == vpc = "done" /\ verr = "none"

\* ------------------------------------------------------------------------
\* C1 as stated: every tag list whose APP-DATA markers (102) and XDATA list
\* markers (1002) are balanced is validated without error and yielded
\* unchanged.  Read in favour of the claim: every 102 tag of the list is one
\* of the balanced markers.
C1_Original ==
    LET N == Len(tags) + 1
    IN  (/\ vpc = "done" /\ Balanced(tags, N)
         /\ \A i \in A102(tags, N) : IsOpening(tags, i) \/ IsClosing(tags, N, i))
        => (verr = "none" /\ vout = tags)

\* C1 amended: a tag list that, up to an embedded-object marker, breaks no
\* structure rule (balanced APP-DATA markers closed before the XDATA section,
\* no other 102 value unless the entity is an XRECORD, only codes >= 1000
\* after the first 1001 tag, 1002 values only '{' or '}' and balanced) is
\* validated without error and yielded unchanged, in the same order.
C1_ValidYieldsUnchanged ==
    (vpc = "done" /\ ValidStructure(tags)) => (verr = "none" /\ vout = tags)

C1_Witness ==
    /\ Accepted /\ ValidStructure(tags) /\ vout = tags
    /\ EmbIdx(tags) = Len(tags) + 1
    /\ \E i \in DOMAIN tags : IsOpening(tags, i)
    /\ \E i \in DOMAIN tags : tags[i].code = XDATA_MARKER

\* ------------------------------------------------------------------------
\* C2 as stated: a tag list balanced but for one unmatched marker fails with
\* DXFAppDataError when the marker has code 102 and with DXFXDataError when
\* it is a 1002 list marker of the XDATA section.
C2_Original ==
    vpc = "done" =>
        \A i \in DOMAIN tags : OneUnmatched(tags, i) =>
            verr = (IF tags[i].code = APP_DATA_MARKER THEN APP_ERROR ELSE XDATA_ERROR)

\* C2 amended: a tag list valid but for one unmatched marker that lies before
\* any embedded-object marker fails with DXFAppDataError when the marker is a
\* 102 marker before the XDATA section, and with DXFXDataError when it is a
\* 1002 list marker of the XDATA section or a 102 marker inside the XDATA
\* section.
C2_UnmatchedMarkerFails ==
    vpc = "done" =>
        \A i \in DOMAIN tags : OneUnmatched(tags, i) =>
            verr = (IF tags[i].code = APP_DATA_MARKER /\ i < XIdx(tags, EmbIdx(tags))
                    THEN APP_ERROR ELSE XDATA_ERROR)

C2_Witness ==
    /\ vpc = "done" /\ verr = XDATA_ERROR
    /\ \E i \in DOMAIN tags : OneUnmatched(tags, i) /\ tags[i].code = 1002
    /\ verrAt = Len(tags) + 1

\* ------------------------------------------------------------------------
\* C3 as stated: a tag list is accepted only if its APP-DATA sections are not
\* nested and each is closed; an opening marker that arrives while a section
\* is open fails with DXFAppDataError.  Read in favour of the claim: the
\* error kind is asked for only where no XDATA section has started.
C3_Original ==
    vpc = "done" =>
        LET N == Len(tags) + 1
        IN  /\ verr = "none" => (NoNesting(tags, N) /\ EachClosed(tags, N))
            /\ (\E i \in A102(tags, N) :
                    IsOpening(tags, i) /\ OpenAt(tags, N, i) /\ i < XIdx(tags, N)
                    /\ i < EmbIdx(tags))
                => verr = APP_ERROR

\* C3 amended: among the tags before an embedded-object marker, a tag list is
\* accepted only if its APP-DATA sections are not nested and each opening
\* marker is followed by the generic or its application-specific closing
\* marker; an opening marker that arrives before the XDATA section while a
\* section is open fails with DXFAppDataError.
C3_NoNestingEachClosed ==
    vpc = "done" =>
        LET E == EmbIdx(tags)
        IN  /\ verr = "none" => (NoNesting(tags, E) /\ EachClosed(tags, E))
            /\ (\E i \in A102(tags, E) :
                    IsOpening(tags, i) /\ OpenAt(tags, E, i) /\ i < XIdx(tags, E))
                => verr = APP_ERROR

C3_Witness ==
    /\ vpc = "done" /\ verr = APP_ERROR /\ verrAt = 3 /\ Len(tags) >= 3
    /\ IsOpening(tags, 2) /\ IsOpening(tags, 3)

\* ------------------------------------------------------------------------
\* C4 as stated: once the first tag with a code >= 1000 has come, a tag with
\* a code < 1000 before an embedded-object marker fails with DXFXDataError.
\* Read in favour of the claim: a failure at an earlier tag counts.
C4_Original ==
    vpc = "done" =>
        LET E == EmbIdx(tags)
            Low == {i \in 1..(E - 1) : FirstExtended(tags, E) < i /\ tags[i].code < 1000}
        IN  Low # {} =>
                /\ verr # "none" /\ verrAt <= Min(Low)
                /\ verrAt = Min(Low) => verr = XDATA_ERROR

\* C4 amended: once the XDATA section has started (first tag with code 1001),
\* a tag with a code < 1000 before an embedded-object marker makes validation
\* fail at that tag at the latest, and the error raised at that tag is
\* DXFXDataError.
C4_OnlyExtendedCodesInXData ==
    vpc = "done" =>
        LET E == EmbIdx(tags)
            Low == {i \in XRange(tags, E) : tags[i].code < 1000}
        IN  Low # {} =>
                /\ verr # "none" /\ verrAt <= Min(Low)
                /\ verrAt = Min(Low) => verr = XDATA_ERROR

C4_Witness ==
    /\ vpc = "done" /\ verr = XDATA_ERROR
    /\ \E i \in XRange(tags, EmbIdx(tags)) : tags[i].code < 1000 /\ verrAt = i

\* ------------------------------------------------------------------------
\* C5: an XRECORD is exempt from APP-DATA validation: whatever its 102 tags,
\* the validator does not raise DXFAppDataError.
C5_XRecordExempt ==
    (vpc = "done" /\ dxftype = <<"XRECORD">>) => verr # APP_ERROR


\* ========================================================================
\* lldxf/tagger.py: tag_compiler
\* ========================================================================
None == [code |-> -1, value |-> "None"]
\* a compiled value carries its Python type
ValueError == [error |-> "ValueError"]

\* lldxf/types.py
POINT_CODES == {10, 11, 12, 13, 14, 15, 16, 17, 18, 110, 111, 112, 210, 211, 212, 213,
                1010, 1011, 1012, 1013}
BINARY_DATA == {310, 311, 312, 313, 314, 315, 316, 317, 318, 319, 1004}

\* TYPE_TABLE.get(code, str): the type a group code is compiled to
TYPE_TABLE(code) ==
    IF code \in 10..59 \/ code \in 110..149 \/ code \in 210..239 \/ code \in 1010..1059
    THEN "float"
    ELSE IF code \in 60..99 \/ code \in 160..179 \/ code \in 270..289 \/ code \in 1060..1071
    THEN "int"
    ELSE "str"

\* float(value): the strings of the model that are floating point literals
float(value) ==
    CASE value = "1.0" -> [float |-> 1]
      [] value = "2.0" -> [float |-> 2]
      [] value = "3.0" -> [float |-> 3]
      [] value = "7" -> [float |-> 7]
      [] OTHER -> ValueError

\* int(value): only the strings that are integer literals
int(value) ==
    CASE value = "7" -> [int |-> 7]
      [] OTHER -> ValueError

\* int(float(value))
int_of_float(value) ==
    IF float(value) = ValueError THEN ValueError ELSE [int |-> float(value).float]

\* DXFBinaryTag.from_string: pairs of hex digits
from_string(value) ==
    CASE value = "0A" -> [bytes |-> <<10>>]
      [] value = "7" -> [bytes |-> <<7>>]
      [] OTHER -> ValueError

\* the tags a tag stream is drawn from: values as ascii_tags_loader yields them
StreamTags ==
    { Tag(10, "1.0"), Tag(10, "x"), Tag(20, "2.0"), Tag(30, "3.0"), Tag(11, "1.0"),
      Tag(1, "x"), Tag(70, "7"), Tag(70, "1.0"), Tag(70, "x"),
      Tag(310, "0A"), Tag(310, "x") }

CompilerIdle ==
    /\ tagger = <<>> /\ tpos = 0 /\ undo_tag = None /\ line = 0
    /\ cout = <<>> /\ cerr = "none" /\ cpc = "idle"

CompilerInit ==
    /\ tagger \in SeqsUpTo(StreamTags, MaxIn)
    /\ tpos = 0 /\ undo_tag = None /\ line = 0
    /\ cout = <<>> /\ cerr = "none" /\ cpc = "loop"

DXFVertex(code, point) == [type |-> "DXFVertex", code |-> code, value |-> point]
DXFBinaryTag(code, data) == [type |-> "DXFBinaryTag", code |-> code, value |-> data]
DXFTag(code, value) == [type |-> "DXFTag", code |-> code, value |-> value]

\* lines 228-233: the tag the iteration starts with, the reader position and
\* the line count after fetching it
HasX == undo_tag # None \/ tpos < Len(tagger)
X == IF undo_tag # None THEN undo_tag ELSE tagger[tpos + 1]
PosX == IF undo_tag # None THEN tpos ELSE tpos + 1
LineX == IF undo_tag # None THEN line ELSE line + 2

CompilerRaise ==
    /\ cerr' = "DXFStructureError" /\ cpc' = "done"
    /\ UNCHANGED cout

\* StopIteration ends the generator
CompilerReturn ==
    /\ cpc' = "done"
    /\ UNCHANGED <<cout, cerr>>

\* lines 232, 273-274: next(tagger) for x raises StopIteration
CompileStop ==
    /\ cpc = "loop" /\ ~HasX
    /\ CompilerReturn
    /\ UNCHANGED <<tagger, tpos, undo_tag, line>>
    /\ UNCHANGED <<vvars, lvars, tvars, xvars>>

\* lines 235-250: x starts a point
CompilePoint ==
    /\ cpc = "loop" /\ HasX /\ X.code \in POINT_CODES
    /\ UNCHANGED tagger
    /\ IF PosX >= Len(tagger)
       THEN \* next(tagger) for y raises StopIteration
            /\ CompilerReturn
            /\ tpos' = PosX /\ line' = LineX /\ undo_tag' = None
       ELSE LET code == X.code
                y == tagger[PosX + 1]
            IN  IF y.code # code + 10
                THEN /\ CompilerRaise
                     /\ tpos' = PosX + 1 /\ line' = LineX + 2 /\ undo_tag' = None
                ELSE IF PosX + 1 >= Len(tagger)
                THEN \* next(tagger) for z raises StopIteration
                     /\ CompilerReturn
                     /\ tpos' = PosX + 1 /\ line' = LineX + 2 /\ undo_tag' = None
                ELSE LET z == tagger[PosX + 2]
                         is3d == z.code = code + 20
                         fx == float(X.value)
                         fy == float(y.value)
                         fz == float(z.value)
                     IN  /\ tpos' = PosX + 2 /\ line' = LineX + 4
                         /\ IF fx = ValueError \/ fy = ValueError \/ (is3d /\ fz = ValueError)
                            THEN /\ CompilerRaise /\ undo_tag' = None
                            ELSE /\ cout' = Append(cout, DXFVertex(code,
                                        IF is3d THEN <<fx, fy, fz>> ELSE <<fx, fy>>))
                                 /\ undo_tag' = IF is3d THEN None ELSE z
                                 /\ UNCHANGED <<cerr, cpc>>
    /\ UNCHANGED <<vvars, lvars, tvars, xvars>>

\* lines 251-259: binary data
CompileBinary ==
    /\ cpc = "loop" /\ HasX /\ X.code \notin POINT_CODES /\ X.code \in BINARY_DATA
    /\ tpos' = PosX /\ line' = LineX /\ undo_tag' = None
    /\ UNCHANGED tagger
    /\ IF from_string(X.value) = ValueError
       THEN CompilerRaise
       ELSE /\ cout' = Append(cout, DXFBinaryTag(X.code, from_string(X.value)))
            /\ UNCHANGED <<cerr, cpc>>
    /\ UNCHANGED <<vvars, lvars, tvars, xvars>>

\* lines 260-272: a single tag; the slow path accepts an int written as float
CompileSingle ==
    /\ cpc = "loop" /\ HasX /\ X.code \notin POINT_CODES /\ X.code \notin BINARY_DATA
    /\ tpos' = PosX /\ line' = LineX /\ undo_tag' = None
    /\ UNCHANGED tagger
    /\ LET type == TYPE_TABLE(X.code)
           fast == CASE type = "str" -> [str |-> X.value]
                     [] type = "float" -> float(X.value)
                     [] type = "int" -> int(X.value)
           slow == IF type = "int" THEN int_of_float(X.value) ELSE ValueError
           value == IF fast # ValueError THEN fast ELSE slow
       IN  IF value = ValueError
           THEN CompilerRaise
           ELSE /\ cout' = Append(cout, DXFTag(X.code, value))
                /\ UNCHANGED <<cerr, cpc>>
    /\ UNCHANGED <<vvars, lvars, tvars, xvars>>

\* ========================================================================
\* Structure of a tag stream, stated on the stream itself
\* ========================================================================
\* a point starts at i: a point-base code followed by the code + 10
IsPointAt(s, i) ==
    /\ i \in DOMAIN s /\ i + 1 \in DOMAIN s
    /\ s[i].code \in POINT_CODES /\ s[i + 1].code = s[i].code + 10
Is3DPointAt(s, i) ==
    IsPointAt(s, i) /\ i + 2 \in DOMAIN s /\ s[i + 2].code = s[i].code + 20
\* a well-formed point sequence: its coordinates are floating point values
IsWellFormedPointAt(s, i) ==
    /\ IsPointAt(s, i)
    /\ float(s[i].value) # ValueError /\ float(s[i + 1].value) # ValueError
    /\ Is3DPointAt(s, i) => float(s[i + 2].value) # ValueError
\* the compiled point the sequence at i stands for
PointAt(s, i) ==
    DXFVertex(s[i].code,
              IF Is3DPointAt(s, i)
              THEN <<float(s[i].value), float(s[i + 1].value), float(s[i + 2].value)>>
              ELSE <<float(s[i].value), float(s[i + 1].value)>>)

\* the value a tag is compiled to, alone or as a coordinate of a point
Compiled(tag) ==
    IF tag.code \in POINT_CODES THEN float(tag.value)
    ELSE IF tag.code \in BINARY_DATA THEN from_string(tag.value)
    ELSE CASE TYPE_TABLE(tag.code) = "str" -> [str |-> tag.value]
           [] TYPE_TABLE(tag.code) = "float" -> float(tag.value)
           [] TYPE_TABLE(tag.code) = "int" ->
                IF int(tag.value) # ValueError THEN int(tag.value) ELSE int_of_float(tag.value)

\* the compiled tags taken apart again: one <<code, value>> per input tag
RECURSIVE Flatten(_)
Flatten(out) ==
    IF out = <<>> THEN <<>>
    ELSE LET t == Head(out)
         IN  (IF t.type = "DXFVertex"
              THEN [k \in 1..Len(t.value) |-> <<t.code + 10 * (k - 1), t.value[k]>>]
              ELSE <<<<t.code, t.value>>>>) \o Flatten(Tail(out))

\* ------------------------------------------------------------------------
\* C6: for every well-formed point sequence (code, code+10[, code+20]) of the
\* stream, wherever it occurs, exactly one compiled point tag with that base
\* code and the value (x, y) or (x, y, z) is yielded: a compilation that ends
\* without error has yielded each point as often as the stream holds it.
C6_EveryPointCompiled ==
    (cpc = "done" /\ cerr = "none") =>
        \A i \in DOMAIN tagger : IsWellFormedPointAt(tagger, i) =>
            Cardinality({j \in DOMAIN cout : cout[j] = PointAt(tagger, i)})
              = Cardinality({k \in DOMAIN tagger :
                                IsPointAt(tagger, k) /\ PointAt(tagger, k) = PointAt(tagger, i)})

\* ------------------------------------------------------------------------
\* C7: whenever a tag with a point-base code is not immediately followed by
\* the tag with the code + 10, compilation fails with DXFStructureError.
C7_MissingYFails ==
    (/\ cpc = "done"
     /\ \E i \in DOMAIN tagger :
            tagger[i].code \in POINT_CODES /\ ~IsPointAt(tagger, i))
    => cerr = "DXFStructureError"

\* ------------------------------------------------------------------------
\* C8: when the tag after an (x, y) pair has not the code + 20, the pair is
\* compiled as a 2D point and the third tag is compiled next, so that no
\* input tag is lost, duplicated or reordered: a compilation of such a
\* stream that ends without error has yielded every input tag, in order.
C8_PushBackLosesNothing ==
    (/\ cpc = "done" /\ cerr = "none"
     /\ \E i \in DOMAIN tagger :
            IsPointAt(tagger, i) /\ i + 2 \in DOMAIN tagger /\ ~Is3DPointAt(tagger, i))
    => Flatten(cout) = [i \in DOMAIN tagger |-> <<tagger[i].code, Compiled(tagger[i])>>]

\* ========================================================================
\* entities/dxfgfx.py: entity_linker
\* An entity of the stream is known by its position; 0 is Python's None.
\* ========================================================================
LINKED_ENTITIES == [INSERT |-> "ATTRIB", POLYLINE |-> "VERTEX"]

Entity(type, follow, h, n) ==
    [dxftype |-> type, attribs_follow |-> follow, handle |-> h, len |-> n]

\* the entities a stream is drawn from; len is what __len__ returns
\* (an LWPOLYLINE without points is a false value), 1 for a plain object
StreamEntities ==
    { Entity("POLYLINE", 0, "H", 1), Entity("VERTEX", 0, "H", 1),
      Entity("INSERT", 0, "H", 1), Entity("INSERT", 1, "H", 1),
      Entity("ATTRIB", 0, "H", 1), Entity("SEQEND", 0, "H", 1),
      Entity("MTEXT", 0, "None", 1), Entity("MTEXT", 0, "H", 1),
      Entity("LINE", 0, "H", 1), Entity("LWPOLYLINE", 0, "H", 0) }

LinkerIdle ==
    /\ stream = <<>> /\ lpos = 0 /\ main_entity = 0 /\ expected = "" /\ prev = 0
    /\ rets = <<>> /\ links = {} /\ lerr = "none"

LinkerInit ==
    /\ stream \in SeqsUpTo(StreamEntities, MaxStream)
    /\ lpos = 0 /\ main_entity = 0 /\ expected = "" /\ prev = 0
    /\ rets = <<>> /\ links = {} /\ lerr = "none"

\* bool(prev)
Truthy(e) == e # 0 /\ stream[e].len # 0

entity_linker_IgnoresAttribsFollow(entity, main, exp) ==
    LET kind == stream[entity].dxftype
    IN  IF main # 0
        THEN IF kind = "SEQEND"
             THEN [err |-> "none", ret |-> TRUE, main |-> 0, expected |-> exp, parent |-> main]
             ELSE IF kind = exp
             THEN [err |-> "none", ret |-> TRUE, main |-> main, expected |-> exp, parent |-> main]
             ELSE [err |-> "DXFStructureError", ret |-> TRUE, main |-> main, expected |-> exp,
                   parent |-> 0]
        ELSE IF kind \in DOMAIN LINKED_ENTITIES
        THEN [err |-> "none", ret |-> FALSE, main |-> entity,
              expected |-> LINKED_ENTITIES[kind], parent |-> 0]
        ELSE IF kind = "MTEXT" /\ stream[entity].handle = "None"
        THEN IF Truthy(prev)
             THEN [err |-> "none", ret |-> TRUE, main |-> main, expected |-> exp, parent |-> prev]
             ELSE [err |-> "DXFStructureError", ret |-> FALSE, main |-> main, expected |-> exp,
                   parent |-> 0]
        ELSE [err |-> "none", ret |-> FALSE, main |-> main, expected |-> exp, parent |-> 0]

\* lines 388-426: the body of entity_linker_ up to `prev = entity`: the error
\* raised, the value returned, main_entity and expected after the call, and
\* the entity that link_entity()/link_seqend() was called on (0: none)
entity_linker_(entity, main, exp) ==
    LET kind == stream[entity].dxftype
    IN  IF main # 0
        THEN IF kind = "SEQEND"
             THEN [err |-> "none", ret |-> TRUE, main |-> 0, expected |-> exp, parent |-> main]
             ELSE IF kind = exp
             THEN [err |-> "none", ret |-> TRUE, main |-> main, expected |-> exp, parent |-> main]
             ELSE [err |-> "DXFStructureError", ret |-> TRUE, main |-> main, expected |-> exp,
                   parent |-> 0]
        ELSE IF kind \in DOMAIN LINKED_ENTITIES
        THEN IF kind = "INSERT" /\ stream[entity].attribs_follow = 0
             THEN [err |-> "none", ret |-> FALSE, main |-> main, expected |-> exp, parent |-> 0]
             ELSE [err |-> "none", ret |-> FALSE, main |-> entity,
                   expected |-> LINKED_ENTITIES[kind], parent |-> 0]
        ELSE IF kind = "MTEXT" /\ stream[entity].handle = "None"
        THEN IF Truthy(prev)
             THEN [err |-> "none", ret |-> TRUE, main |-> main, expected |-> exp, parent |-> prev]
             ELSE [err |-> "DXFStructureError", ret |-> FALSE, main |-> main, expected |-> exp,
                   parent |-> 0]
        ELSE [err |-> "none", ret |-> FALSE, main |-> main, expected |-> exp, parent |-> 0]

\* the loader hands the next entity of the stream to the linker
LinkEntity ==
    /\ lerr = "none" /\ lpos < Len(stream)
    /\ LET entity == lpos + 1
           r == entity_linker_(entity, main_entity, expected)
       IN  /\ lpos' = entity
           /\ main_entity' = r.main /\ expected' = r.expected
           /\ links' = IF r.parent # 0 THEN links \cup {<<r.parent, entity>>} ELSE links
           /\ IF r.err # "none"
              THEN /\ lerr' = r.err /\ UNCHANGED <<rets, prev>>
              ELSE /\ rets' = Append(rets, r.ret) /\ prev' = entity /\ UNCHANGED lerr
    /\ UNCHANGED stream
    /\ UNCHANGED <<vvars, cvars, tvars, xvars>>

\* ------------------------------------------------------------------------
\* The linked entities of a stream, stated on the stream itself
IsOpener(e) == e.dxftype = "POLYLINE" \/ (e.dxftype = "INSERT" /\ e.attribs_follow # 0)
IsAttachedMText(e) == e.dxftype = "MTEXT" /\ e.handle = "None"
\* entity i is a VERTEX after a POLYLINE, an ATTRIB after an INSERT with
\* attribs_follow, or the SEQEND that closes such a sequence
FollowsOpener(s, i) ==
    \E j \in 1..(i - 1) :
        /\ IsOpener(s[j])
        /\ \A k \in (j + 1)..(i - 1) : s[k].dxftype = LINKED_ENTITIES[s[j].dxftype]
        /\ s[i].dxftype \in {LINKED_ENTITIES[s[j].dxftype], "SEQEND"}
IsLinked(s, i) == FollowsOpener(s, i) \/ IsAttachedMText(s[i])

\* C9: processing a flat entity stream in order, the linker returns True for
\* exactly the VERTEX entities after a POLYLINE, the ATTRIB entities after an
\* INSERT with non-zero attribs_follow, the SEQEND closing such a sequence
\* and the attached MTEXT entities, and False for every other entity.
C9_LinkedExactly ==
    \A i \in DOMAIN rets : rets[i] = IsLinked(stream, i)

C9_Witness ==
    /\ Len(rets) = 4 /\ rets = <<FALSE, TRUE, TRUE, FALSE>>
    /\ stream[1].dxftype = "INSERT" /\ stream[2].dxftype = "ATTRIB"
    /\ stream[3].dxftype = "SEQEND" /\ stream[4].dxftype = "ATTRIB"


\* ------------------------------------------------------------------------
\* (a): a POLYLINE or INSERT sequence is open and the entity is neither of
\* the expected linked type nor a SEQEND
SequenceBroken(e) == main_entity # 0 /\ e.dxftype \notin {expected, "SEQEND"}
\* (b): an attached MTEXT outside a sequence that no entity precedes
NothingToAttachTo(e) == main_entity = 0 /\ IsAttachedMText(e) /\ lpos = 0

\* C24: the linker raises DXFStructureError for an entity in exactly the
\* situations (a) and (b); in every other case, an attached MTEXT with a
\* preceding entity included, the call returns without error.
C24_RaisesExactlyTwice ==
    [][lpos' = lpos + 1
       => ((lerr' = "DXFStructureError")
            <=> (SequenceBroken(stream[lpos']) \/ NothingToAttachTo(stream[lpos'])))]_vars


\* ========================================================================
\* sections/table.py: Table (every table but the viewport table)
\* entries is the OrderedDict as the sequence of its items; an entity is
\* known by its handle, objects holds the attributes of the entities created
\* so far and entitydb the handles stored in the entity database.
\* ========================================================================
Names == {"a", "A", "b"}
TableTypes == {"LAYER", "LTYPE"}
head_name == "LAYER"

\* str.lower()
lower(name) ==
    CASE name = "A" -> "a"
      [] name = "B" -> "b"
      [] name = "DEFPOINTS" -> "defpoints"
      [] OTHER -> name

\* Table.key
key(name) == lower(name)

Item(k, e) == [key |-> k, entry |-> e]
Keys(d) == {d[i].key : i \in DOMAIN d}
Lookup(d, k) == d[CHOOSE i \in DOMAIN d : d[i].key = k].entry
\* d[k] = e keeps the place of a key the dict holds and appends a new key
SetItem(d, k, e) ==
    IF k \in Keys(d)
    THEN [i \in DOMAIN d |-> IF d[i].key = k THEN Item(k, e) ELSE d[i]]
    ELSE Append(d, Item(k, e))
\* del d[k]
DelItem(d, k) == SelectSeq(d, LAMBDA item : item.key # k)

TableIdle ==
    /\ entries = <<>> /\ objects = <<>> /\ entitydb = {} /\ next_handle = 1
    /\ terr = "none" /\ lastop = "idle" /\ lastarg = ""

TableInit ==
    /\ entries = <<>> /\ objects = <<>> /\ entitydb = {} /\ next_handle = 1
    /\ terr = "none" /\ lastop = "init" /\ lastarg = ""

has_entry_CaseSensitive(name) == name \in Keys(entries)

\* Table.has_entry
has_entry(name) == key(name) \in Keys(entries)

append_CaseSensitive(d, entry, objs) == SetItem(d, objs[entry].name, entry)

\* Table._append
append(d, entry, objs) == SetItem(d, key(objs[entry].name), entry)

\* EntityFactory.create_db_entry, EntityDB.duplicate_entity: a new entity
\* with the next handle, stored in the entity database
NewObject(type, name) == Append(objects, [dxftype |-> type, name |-> name, alive |-> TRUE])
Alive == {h \in DOMAIN objects : objects[h].alive}

TableFail(op, error) ==
    /\ terr' = error /\ lastop' = op
    /\ UNCHANGED <<entries, objects, entitydb, next_handle>>

\* Table.new, Table.new_entry
Table_new ==
    /\ lastop # "idle"
    /\ \E name \in Names :
        /\ lastarg' = name
        /\ IF has_entry(name)
           THEN TableFail("new", "DXFTableEntryError")
           ELSE /\ next_handle <= MaxEntities
                /\ objects' = NewObject(head_name, name)
                /\ entitydb' = entitydb \cup {next_handle}
                /\ entries' = append(entries, next_handle, objects')
                /\ next_handle' = next_handle + 1
                /\ terr' = "none" /\ lastop' = "new"
    /\ UNCHANGED <<vvars, cvars, lvars, xvars>>

\* an entity created by another object than this table
CreateForeign ==
    /\ lastop # "idle" /\ next_handle <= MaxEntities
    /\ \E name \in Names, type \in TableTypes :
        /\ objects' = NewObject(type, name)
        /\ entitydb' = entitydb \cup {next_handle}
        /\ next_handle' = next_handle + 1
        /\ lastarg' = name
    /\ terr' = "none" /\ lastop' = "create"
    /\ UNCHANGED entries
    /\ UNCHANGED <<vvars, cvars, lvars, xvars>>

\* Table.add_entry
Table_add_entry ==
    /\ lastop # "idle"
    /\ \E entry \in Alive :
        /\ lastarg' = objects[entry].name
        /\ IF objects[entry].dxftype # head_name
           THEN TableFail("add_entry", "DXFTypeError")
           ELSE IF has_entry(objects[entry].name)
           THEN TableFail("add_entry", "DXFTableEntryError")
           ELSE /\ entries' = append(entries, entry, objects)
                /\ terr' = "none" /\ lastop' = "add_entry"
                /\ UNCHANGED <<objects, entitydb, next_handle>>
    /\ UNCHANGED <<vvars, cvars, lvars, xvars>>

Table_remove_KeepsEntity ==
    /\ lastop # "idle"
    /\ \E name \in Names :
        /\ lastarg' = name
        /\ IF ~has_entry(name)
           THEN TableFail("remove", "DXFTableEntryError")
           ELSE /\ entries' = DelItem(entries, key(key(name)))
                /\ terr' = "none" /\ lastop' = "remove"
                /\ UNCHANGED <<objects, entitydb, next_handle>>
    /\ UNCHANGED <<vvars, cvars, lvars, xvars>>

\* Table.remove: get(), EntityDB.delete_entity(), discard()
Table_remove ==
    /\ lastop # "idle"
    /\ \E name \in Names :
        /\ lastarg' = name
        /\ IF ~has_entry(name)
           THEN TableFail("remove", "DXFTableEntryError")
           ELSE LET entry == Lookup(entries, key(name))
                IN  /\ entitydb' = entitydb \ {entry}
                    /\ objects' = [objects EXCEPT ![entry].alive = FALSE]
                    /\ entries' = DelItem(entries, key(key(name)))  \* discard(key)
                    /\ terr' = "none" /\ lastop' = "remove"
                    /\ UNCHANGED next_handle
    /\ UNCHANGED <<vvars, cvars, lvars, xvars>>

\* Table.discard
Table_discard ==
    /\ lastop # "idle"
    /\ \E name \in Names :
        /\ lastarg' = name
        /\ IF ~has_entry(name)
           THEN TableFail("discard", "KeyError")
           ELSE /\ entries' = DelItem(entries, key(name))
                /\ terr' = "none" /\ lastop' = "discard"
                /\ UNCHANGED <<objects, entitydb, next_handle>>
    /\ UNCHANGED <<vvars, cvars, lvars, xvars>>

\* Table.duplicate_entry
Table_duplicate_entry ==
    /\ lastop # "idle"
    /\ \E name \in Names, new_name \in Names :
        /\ lastarg' = name
        /\ IF ~has_entry(name)
           THEN TableFail("duplicate_entry", "DXFTableEntryError")
           ELSE /\ next_handle <= MaxEntities
                /\ objects' = NewObject(objects[Lookup(entries, key(name))].dxftype, new_name)
                /\ entitydb' = entitydb \cup {next_handle}
                /\ entries' = append(entries, next_handle, objects')
                /\ next_handle' = next_handle + 1
                /\ terr' = "none" /\ lastop' = "duplicate_entry"
    /\ UNCHANGED <<vvars, cvars, lvars, xvars>>

\* Table.replace
Table_replace ==
    /\ lastop # "idle"
    /\ \E name \in Names, entry \in Alive :
        /\ lastarg' = name
        /\ IF ~has_entry(name)
           THEN TableFail("replace", "KeyError")
           ELSE /\ entries' = append(DelItem(entries, key(name)), entry, objects)
                /\ terr' = "none" /\ lastop' = "replace"
                /\ UNCHANGED <<objects, entitydb, next_handle>>
    /\ UNCHANGED <<vvars, cvars, lvars, xvars>>

\* ------------------------------------------------------------------------
\* C10: after any sequence of new, add_entry, duplicate_entry, replace,
\* remove and discard, no two entries of the table have names that are equal
\* ignoring case, and every entry is stored under its lower-cased name.
C10_UniqueNames ==
    /\ \A i, j \in DOMAIN entries :
           i # j => lower(objects[entries[i].entry].name) # lower(objects[entries[j].entry].name)
    /\ \A i \in DOMAIN entries : entries[i].key = lower(objects[entries[i].entry].name)

C10_Witness ==
    /\ lastop = "duplicate_entry" /\ terr = "none"
    /\ Len(entries) = 2
    /\ \E i \in DOMAIN entries : objects[entries[i].entry].name = "A"
    /\ \E h \in Alive : objects[h].name = "a" /\ \A i \in DOMAIN entries : entries[i].entry # h

\* ------------------------------------------------------------------------
\* the table holds an entry whose name equals name ignoring case
HoldsIgnoringCase(name) ==
    \E i \in DOMAIN entries : lower(objects[entries[i].entry].name) = lower(name)

\* C11: Table.new(name) called when the table already holds an entry whose
\* name equals name ignoring case fails with DXFTableEntryError and creates
\* no entry (table, entity database and handles stay as they were); a new()
\* that follows a successful new() of the same name in any letter case fails.
C11_NewDuplicateFails ==
    [][lastop' = "new" =>
          /\ HoldsIgnoringCase(lastarg') =>
                /\ terr' = "DXFTableEntryError"
                /\ UNCHANGED <<entries, objects, entitydb, next_handle>>
          /\ (lastop = "new" /\ terr = "none" /\ lower(lastarg') = lower(lastarg)) =>
                terr' = "DXFTableEntryError"]_vars

C11_Witness ==
    /\ lastop = "new" /\ terr = "DXFTableEntryError" /\ lastarg = "A"
    /\ Len(entries) = 1 /\ objects[entries[1].entry].name = "a"
    /\ Cardinality(entitydb) = 1

\* ------------------------------------------------------------------------
\* C12: Table.remove(name) removes the entry from the table and destroys it
\* in the entity database, so that after the call it is found in neither;
\* Table.discard(name) removes the entry from the table only and leaves the
\* entity alive in the entity database.  Every other entry stays.
C12_RemoveDestroysDiscardKeeps ==
    [][(lastop' \in {"remove", "discard"} /\ terr' = "none") =>
          LET h == Lookup(entries, lower(lastarg'))
          IN  /\ lower(lastarg') \in Keys(entries)
              /\ entries' = SelectSeq(entries, LAMBDA item : item.entry # h)
              /\ \A i \in DOMAIN entries' : entries'[i].key # lower(lastarg')
              /\ h \in entitydb /\ objects[h].alive
              /\ IF lastop' = "remove"
                 THEN /\ entitydb' = entitydb \ {h}
                      /\ ~objects'[h].alive
                      /\ \A g \in DOMAIN objects : g # h => objects'[g] = objects[g]
                 ELSE /\ entitydb' = entitydb /\ objects' = objects]_vars

C12_Witness ==
    /\ lastop = "remove" /\ terr = "none" /\ lastarg = "A"
    /\ \E h \in DOMAIN objects :
          /\ objects[h].name = "a" /\ ~objects[h].alive /\ h \notin entitydb
          /\ \A i \in DOMAIN entries : entries[i].entry # h
    /\ Len(entries) = 1

\* ========================================================================
\* sections/table.py: ViewportTable
\* An entry of the OrderedDict is the list of the VPORT entities of one name.
\* ========================================================================
ViewportTableIdle ==
    /\ vp_entries = <<>> /\ vp_objects = <<>> /\ vp_entitydb = {}
    /\ vp_err = "none" /\ vp_op = "idle" /\ vp_arg = ""

ViewportTableInit ==
    /\ vp_entries = <<>> /\ vp_objects = <<>> /\ vp_entitydb = {}
    /\ vp_err = "none" /\ vp_op = "init" /\ vp_arg = ""

ViewportTable_append_Overwrite(d, entry, objs) == SetItem(d, key(objs[entry].name), <<entry>>)

\* ViewportTable._append
ViewportTable_append(d, entry, objs) ==
    LET k == key(objs[entry].name)
    IN  IF k \in Keys(d)
        THEN SetItem(d, k, Append(Lookup(d, k), entry))
        ELSE SetItem(d, k, <<entry>>)

\* ViewportTable.new, ViewportTable.new_entry
ViewportTable_new ==
    /\ vp_op # "idle" /\ Len(vp_objects) < MaxVports
    /\ \E name \in Names :
        LET entry == Len(vp_objects) + 1
        IN  /\ vp_objects' = Append(vp_objects, [dxftype |-> "VPORT", name |-> name, alive |-> TRUE])
            /\ vp_entitydb' = vp_entitydb \cup {entry}
            /\ vp_entries' = ViewportTable_append(vp_entries, entry, vp_objects')
            /\ vp_err' = "none" /\ vp_op' = "new" /\ vp_arg' = name
    /\ UNCHANGED but_pvars

\* ViewportTable.remove
ViewportTable_remove ==
    /\ vp_op # "idle"
    /\ \E name \in Names :
        /\ vp_op' = "remove" /\ vp_arg' = name
        /\ IF key(name) \notin Keys(vp_entries) \/ Lookup(vp_entries, key(name)) = <<>>
           THEN /\ vp_err' = "DXFTableEntryError"   \* raised by get()
                /\ UNCHANGED <<vp_entries, vp_objects, vp_entitydb>>
           ELSE LET removed == Lookup(vp_entries, key(name))
                    gone == {removed[i] : i \in DOMAIN removed}
                IN  /\ vp_entitydb' = vp_entitydb \ gone
                    /\ vp_objects' = [h \in DOMAIN vp_objects |->
                                         IF h \in gone THEN [vp_objects[h] EXCEPT !.alive = FALSE]
                                         ELSE vp_objects[h]]
                    /\ vp_entries' = DelItem(vp_entries, key(name))
                    /\ vp_err' = "none"
    /\ UNCHANGED but_pvars

\* ViewportTable._flatten, ViewportTable.__iter__
RECURSIVE ViewportTable_flatten(_)
ViewportTable_flatten(d) ==
    IF d = <<>> THEN <<>> ELSE Head(d).entry \o ViewportTable_flatten(Tail(d))
ViewportTable_iter(d) == ViewportTable_flatten(d)
\* ViewportTable.__len__
ViewportTable_len(d) == Len(ViewportTable_flatten(d))

\* ------------------------------------------------------------------------
\* C13: ViewportTable.new(name) never fails because the name already exists,
\* entries sharing a name (ignoring case) are kept together in one list, and
\* after any sequence of new and remove calls len(table) equals the number of
\* entries yielded by iterating the table, which equals the total number of
\* VPORT entries over all names: the VPORT entities created and not removed.
C13_ViewportLists ==
    /\ vp_op = "new" => vp_err = "none"
    /\ \A i, j \in DOMAIN vp_entries : i # j => vp_entries[i].key # vp_entries[j].key
    /\ \A i \in DOMAIN vp_entries : \A k \in DOMAIN vp_entries[i].entry :
           lower(vp_objects[vp_entries[i].entry[k]].name) = vp_entries[i].key
    /\ LET it == ViewportTable_iter(vp_entries)
       IN  /\ ViewportTable_len(vp_entries) = Len(it)
           /\ Len(it) = Cardinality({h \in DOMAIN vp_objects : vp_objects[h].alive})
           /\ {it[i] : i \in DOMAIN it} = vp_entitydb

C13_Witness ==
    /\ vp_op = "new" /\ vp_err = "none" /\ vp_arg = "A"
    /\ Len(vp_entries) = 1 /\ ViewportTable_len(vp_entries) = 2
    /\ vp_objects[vp_entries[1].entry[1]].name = "a"
    /\ \E h \in DOMAIN vp_objects : ~vp_objects[h].alive

\* ========================================================================
\* entities/layer.py: Layer.rename
\* The document: the layer table (rn_layers over the layers rn_objects), the
\* layer attribute of the entities of the entity database (rn_refs, "" where
\* the attribute is not set) and the frozen layers of a VIEWPORT, kept as the
\* layer handles it was loaded with or as layer names.
\* ========================================================================
LayerTables == {<<"0", "a">>, <<"0", "A", "b">>, <<"DEFPOINTS", "b", "a">>}
RefNames == {"", "a", "A", "b"}
FrozenNames == {"a", "A", "b"}
NewNames == {"a", "A", "b", "B", "c", "<"}

Layer(name) == [dxftype |-> "LAYER", name |-> name]

\* lldxf/validator.py: no invalid character in the name
is_valid_layer_name(name) == name # "<"

RECURSIVE load(_, _)
\* Table.load: every layer is appended to the table
load(objs, n) == IF n = 0 THEN <<>> ELSE append(load(objs, n - 1), n, objs)

RenameIdle ==
    /\ rn_layers = <<>> /\ rn_objects = <<>> /\ rn_refs = <<>>
    /\ rn_frozen = [type |-> "names", names |-> <<>>, handles |-> <<>>]
    /\ rn_err = "none" /\ rn_op = "idle" /\ rn_call = [layer |-> 0, old |-> "", new |-> ""]

RenameInit ==
    /\ \E t \in LayerTables :
          /\ rn_objects = [h \in DOMAIN t |-> Layer(t[h])]
          /\ rn_layers = load(rn_objects, Len(t))
    /\ rn_refs \in [1..MaxRefs -> RefNames]
    /\ \/ \E names \in SeqsUpTo(FrozenNames, MaxFrozen) :
             rn_frozen = [type |-> "names", names |-> names, handles |-> <<>>]
       \/ \E handles \in SeqsUpTo(0..3, MaxFrozen) :
             rn_frozen = [type |-> "handles", names |-> <<>>, handles |-> handles]
    /\ rn_err = "none" /\ rn_op = "init" /\ rn_call = [layer |-> 0, old |-> "", new |-> ""]

\* Viewport.frozen_layers (getter): the names of the frozen layers; handles
\* are resolved through the entity database, unknown handles are ignored
frozen_layers(frozen, objs) ==
    IF frozen.type = "names" THEN frozen.names
    ELSE LET known == SelectSeq(frozen.handles, LAMBDA h : h \in DOMAIN objs)
         IN  [k \in DOMAIN known |-> objs[known[k]].name]

\* Viewport.rename_frozen_layer
rename_frozen_layer(frozen, objs, old_name, new_name) ==
    LET names == frozen_layers(frozen, objs)
    IN  [type |-> "names",
         names |-> [k \in DOMAIN names |->
                       IF key(names[k]) # key(old_name) THEN names[k] ELSE new_name],
         handles |-> <<>>]

rename_layer_reference_CaseSensitive(ref, old_name, new_name) ==
    IF ref # "" /\ ref = old_name THEN new_name ELSE ref

\* Layer._rename_layer_references, lines 244-245: the layer attribute of one
\* entity after the renaming
rename_layer_reference(ref, old_name, new_name) ==
    IF ref # "" /\ key(ref) = key(old_name) THEN new_name ELSE ref

RenameFail ==
    /\ rn_err' = "ValueError"
    /\ UNCHANGED <<rn_layers, rn_objects, rn_refs, rn_frozen>>

\* Layer.rename with Table.replace and Layer._rename_layer_references
Layer_rename ==
    /\ rn_op # "idle"
    /\ \E layer \in DOMAIN rn_objects, name \in NewNames :
        LET old == rn_objects[layer].name
            renamed == [rn_objects EXCEPT ![layer].name = name]
        IN  /\ rn_op' = "rename" /\ rn_call' = [layer |-> layer, old |-> old, new |-> name]
            /\ IF ~is_valid_layer_name(name) THEN RenameFail
               ELSE IF lower(old) \in {"0", "defpoints"} THEN RenameFail
               ELSE IF key(name) \in Keys(rn_layers) THEN RenameFail
               ELSE /\ rn_objects' = renamed
                    /\ rn_layers' = append(DelItem(rn_layers, key(old)), layer, renamed)
                    /\ rn_refs' = [i \in DOMAIN rn_refs |->
                                      rename_layer_reference(rn_refs[i], old, name)]
                    /\ rn_frozen' = rename_frozen_layer(rn_frozen, renamed, old, name)
                    /\ rn_err' = "none"
    /\ UNCHANGED but_rvars

\* ------------------------------------------------------------------------
\* C14: after Layer.rename(new_name) succeeds, every entity of the document
\* whose layer reference equalled the old name (ignoring case) references
\* new_name and no entity references the old name, the VIEWPORT frozen-layer
\* list has the old name replaced by new_name (the other names stay), and
\* the layer table holds the layer under new_name and no entry under the old
\* name.
C14_RenameUpdatesReferences ==
    [][(rn_op' = "rename" /\ rn_err' = "none") =>
          LET layer == rn_call'.layer
              old == rn_call'.old
              new == rn_call'.new
              before == frozen_layers(rn_frozen, rn_objects)
              after == frozen_layers(rn_frozen', rn_objects')
          IN  /\ rn_objects[layer].name = old /\ rn_objects'[layer].name = new
              /\ \A i \in DOMAIN rn_refs :
                    /\ (rn_refs[i] # "" /\ lower(rn_refs[i]) = lower(old)) => rn_refs'[i] = new
                    /\ rn_refs'[i] # "" => lower(rn_refs'[i]) # lower(old)
              /\ Len(after) = Len(before)
              /\ \A k \in DOMAIN before :
                    after[k] = IF lower(before[k]) = lower(old) THEN new ELSE before[k]
              /\ lower(new) \in Keys(rn_layers')
              /\ Lookup(rn_layers', lower(new)) = layer
              /\ lower(old) \notin Keys(rn_layers')
              /\ \A i \in DOMAIN rn_layers' : rn_layers'[i].entry # layer
                                                 \/ rn_layers'[i].key = lower(new)]_vars

C14_Witness ==
    /\ rn_op = "rename" /\ rn_err = "none" /\ rn_call.old = "a" /\ rn_call.new = "c"
    /\ rn_refs = <<"c", "b">>
    /\ rn_frozen.type = "names" /\ rn_frozen.names = <<"c", "b">>
    /\ Lookup(rn_layers, "c") = rn_call.layer /\ "a" \notin Keys(rn_layers)

\* ========================================================================
\* explode.py: explode_entity, explode_block_reference
\* The document: the entities by handle (ex_objects), the entity database
\* (ex_db, the handles stored) and the entity space of every layout.  The
\* owner of an entity names its layout ("": not assigned to a layout); parts
\* is the number of entities its decomposition yields, attribs the attached
\* ATTRIB entities of an INSERT.
\* ========================================================================
Layouts == {"msp", "blk"}

GraphicEntity(type, owner, parts, attribs) ==
    [dxftype |-> type, owner |-> owner, alive |-> TRUE, parts |-> parts, attribs |-> attribs]

\* the entities a document is made of: what is exploded, with its owner, the
\* size of its decomposition and the number of its attached ATTRIB entities
SourceEntities ==
    [dxftype : {"INSERT"}, owner : Layouts \cup {""}, parts : 0..MaxParts, nattribs : {0, 1}]
    \cup [dxftype : {"LWPOLYLINE"}, owner : Layouts \cup {""}, parts : 0..MaxParts, nattribs : {0}]

RECURSIVE LoadObjects(_, _)
\* the entities of the document after loading: an ATTRIB follows its INSERT
LoadObjects(sources, n) ==
    IF n = 0 THEN <<>>
    ELSE LET loaded == LoadObjects(sources, n - 1)
             h == Len(loaded) + 1
             e == sources[n]
         IN  IF e.nattribs = 0
             THEN Append(loaded, GraphicEntity(e.dxftype, e.owner, e.parts, <<>>))
             ELSE loaded \o << GraphicEntity(e.dxftype, e.owner, e.parts, <<h + 1>>),
                              GraphicEntity("ATTRIB", e.owner, 0, <<>>) >>

ExplodeIdle ==
    /\ ex_objects = <<>> /\ ex_db = {} /\ ex_space = [l \in Layouts |-> <<>>]
    /\ ex_result = <<>> /\ ex_call = [source |-> 0, target |-> ""]
    /\ ex_err = "none" /\ ex_op = "idle"

ExplodeInit ==
    /\ \E sources \in SeqsUpTo(SourceEntities, MaxSources) :
          ex_objects = LoadObjects(sources, Len(sources))
    /\ ex_db = DOMAIN ex_objects
    /\ ex_space = [l \in Layouts |->
                      SelectSeq([h \in DOMAIN ex_objects |-> h],
                                LAMBDA h : ex_objects[h].owner = l /\ ex_objects[h].dxftype # "ATTRIB")]
    /\ ex_result = <<>> /\ ex_call = [source |-> 0, target |-> ""]
    /\ ex_err = "none" /\ ex_op = "init"

\* DXFGraphic.get_layout: "" is None
get_layout(objs, h) == objs[h].owner

\* EntityDB.delete_entity: a living entity leaves the database and is destroyed
db_delete_entity(doc, h) ==
    IF doc.objects[h].alive
    THEN [doc EXCEPT !.db = doc.db \ {h}, !.objects[h].alive = FALSE]
    ELSE doc

\* BaseLayout.delete_entity: the entity leaves the entity space of the layout
\* and the entity database
layout_delete_entity(doc, layout, h) ==
    db_delete_entity([doc EXCEPT !.space[layout] = SelectSeq(doc.space[layout], LAMBDA g : g # h)], h)

\* EntityDB.add and BaseLayout.add_entity for a new entity: it gets the next
\* handle, is stored in the database and appended to the entity space
add_new_entity(doc, layout, type) ==
    LET h == Len(doc.objects) + 1
    IN  [objects |-> Append(doc.objects, GraphicEntity(type, layout, 0, <<>>)),
         db |-> doc.db \cup {h},
         space |-> [doc.space EXCEPT ![layout] = Append(doc.space[layout], h)],
         result |-> Append(doc.result, h)]

RECURSIVE add_virtual_entities(_, _, _)
\* explode.py lines 61-68, 354-357: every entity of the decomposition is
\* added to the entity database and to the target layout
add_virtual_entities(doc, layout, n) ==
    IF n = 0 THEN doc ELSE add_new_entity(add_virtual_entities(doc, layout, n - 1), layout, "LINE")

\* attrib_to_text and lines 72-76: the ATTRIB is deleted from the database,
\* the TEXT created in the database takes its handle and is added to the
\* target layout
RECURSIVE attribs_to_text(_, _, _, _)
attribs_to_text(doc, layout, attribs, n) ==
    IF n = 0 THEN doc
    ELSE LET d == attribs_to_text(doc, layout, attribs, n - 1)
             h == attribs[n]
             deleted == db_delete_entity(d, h)
         IN  [objects |-> [deleted.objects EXCEPT ![h] = GraphicEntity("TEXT", layout, 0, <<>>)],
              db |-> deleted.db \cup {h},
              space |-> [deleted.space EXCEPT ![layout] = Append(deleted.space[layout], h)],
              result |-> Append(deleted.result, h)]

delete_source_KeepsUnlinked(doc, h) ==
    IF get_layout(doc.objects, h) # ""
    THEN layout_delete_entity(doc, get_layout(doc.objects, h), h)
    ELSE doc

\* explode.py lines 78-83, 359-363: the source is deleted from its layout, or
\* from the entity database if it is not assigned to a layout
delete_source(doc, h) ==
    IF get_layout(doc.objects, h) # ""
    THEN layout_delete_entity(doc, get_layout(doc.objects, h), h)
    ELSE db_delete_entity(doc, h)

Doc == [objects |-> ex_objects, db |-> ex_db, space |-> ex_space, result |-> <<>>]

ExplodeReturn(doc) ==
    /\ ex_objects' = doc.objects /\ ex_db' = doc.db /\ ex_space' = doc.space
    /\ ex_result' = doc.result /\ ex_err' = "none"

ExplodeRaise(error) ==
    /\ ex_err' = error /\ ex_result' = <<>>
    /\ UNCHANGED <<ex_objects, ex_db, ex_space>>

\* explode_entity
explode_entity ==
    /\ ex_op # "idle"
    /\ \E entity \in ex_db, target_layout \in Layouts \cup {""} :
        /\ ex_objects[entity].dxftype = "LWPOLYLINE"
        /\ ex_op' = "explode_entity"
        /\ LET target == IF target_layout = "" THEN get_layout(ex_objects, entity)
                          ELSE target_layout
           IN  /\ ex_call' = [source |-> entity, target |-> target]
               /\ IF target = ""
                  THEN ExplodeRaise("DXFStructureError")
                  ELSE ExplodeReturn(delete_source(
                           add_virtual_entities(Doc, target, ex_objects[entity].parts), entity))
    /\ UNCHANGED but_evars

\* explode_block_reference
explode_block_reference ==
    /\ ex_op # "idle"
    /\ \E block_ref \in ex_db, target_layout \in Layouts \cup {""} :
        /\ ex_objects[block_ref].dxftype = "INSERT"
        /\ ex_op' = "explode_block_reference"
        /\ ex_call' = [source |-> block_ref, target |-> target_layout]
        /\ IF target_layout = ""
           THEN ExplodeRaise("DXFStructureError")
           ELSE LET attribs == ex_objects[block_ref].attribs
                    parts == add_virtual_entities(Doc, target_layout, ex_objects[block_ref].parts)
                IN  ExplodeReturn(delete_source(
                        attribs_to_text(parts, target_layout, attribs, Len(attribs)), block_ref))
    /\ UNCHANGED but_evars

\* ------------------------------------------------------------------------
InSpace(l, h) == \E k \in DOMAIN ex_space[l] : ex_space[l][k] = h

\* C15: after explode_entity or explode_block_reference returns, every entity
\* produced by the decomposition is registered in the entity database and
\* contained in the target layout, and the source entity is no longer
\* contained in its layout (nor in any other) nor in the entity database.
C15_ExplodeMovesEntities ==
    (ex_op \in {"explode_entity", "explode_block_reference"} /\ ex_err = "none") =>
        /\ \A k \in DOMAIN ex_result :
              /\ ex_result[k] \in ex_db /\ ex_objects[ex_result[k]].alive
              /\ InSpace(ex_call.target, ex_result[k])
              /\ ex_objects[ex_result[k]].dxftype \in {"LINE", "TEXT"}
        /\ \A j, k \in DOMAIN ex_result : j # k => ex_result[j] # ex_result[k]
        /\ ex_call.source \notin ex_db /\ ~ex_objects[ex_call.source].alive
        /\ \A l \in Layouts : ~InSpace(l, ex_call.source)
        /\ Len(ex_result) = ex_objects[ex_call.source].parts
                             + Len(ex_objects[ex_call.source].attribs)

C15_Witness ==
    /\ ex_op = "explode_block_reference" /\ ex_err = "none"
    /\ ex_call.target = "msp" /\ ex_objects[ex_call.source].owner = "blk"
    /\ Len(ex_result) = 3 /\ ex_objects[ex_result[3]].dxftype = "TEXT"
    /\ \E h \in DOMAIN ex_objects :
          ex_objects[h].dxftype = "LWPOLYLINE" /\ ~ex_objects[h].alive /\ ex_objects[h].owner = ""

\* ========================================================================
\* explode.py: virtual_block_reference_entities
\* A block entity is known by its index in the block layout.  What the
\* entity classes decide is an attribute of the entity: has_arc and the
\* segments virtual_entities() yields, whether copy() raises DXFTypeError,
\* whether transform_to_wcs() raises NotImplementedError, whether the axis
\* construction for the ellipse made of it raises ArithmeticError, whether
\* the paths of a HATCH have critical elements.
\* ========================================================================
BlockEntity(type, arc, segs, copy, transform, axis, crit) ==
    [dxftype |-> type, has_arc |-> arc, segments |-> segs, copyable |-> copy,
     transformable |-> transform, axis_error |-> axis, critical |-> crit]

Plain(type) == BlockEntity(type, FALSE, <<>>, TRUE, TRUE, FALSE, FALSE)

BlockEntities ==
    { Plain("CIRCLE"), Plain("ARC"), Plain("LINE"), Plain("ELLIPSE"), Plain("ATTDEF"),
      Plain("DIMENSION"), Plain("LWPOLYLINE"),
      BlockEntity("CIRCLE", FALSE, <<>>, TRUE, TRUE, TRUE, FALSE),
      BlockEntity("LWPOLYLINE", TRUE, <<"LINE", "ARC">>, TRUE, TRUE, FALSE, FALSE),
      BlockEntity("LWPOLYLINE", TRUE, <<"LINE">>, TRUE, TRUE, FALSE, FALSE),
      BlockEntity("POLYLINE", TRUE, <<"ARC">>, TRUE, TRUE, FALSE, FALSE),
      BlockEntity("TOLERANCE", FALSE, <<>>, TRUE, FALSE, FALSE, FALSE),
      BlockEntity("ACAD_TABLE", FALSE, <<>>, FALSE, TRUE, FALSE, FALSE),
      BlockEntity("HATCH", FALSE, <<>>, TRUE, TRUE, FALSE, TRUE) }

\* xscale, yscale, zscale of the block reference
Scalings == {<<1, 1, 1>>, <<2, 2, 2>>, <<-1, -1, -1>>, <<1, 2, 1>>, <<-1, 1, 1>>, <<1, -1, 1>>}

NoItem == [dxftype |-> "", origin |-> 0, transformable |-> TRUE, axis_error |-> FALSE]

VirtualIdle ==
    /\ v_block = <<>> /\ v_exists = FALSE /\ v_scale = <<1, 1, 1>> /\ v_pos = 0 /\ v_seg = 0
    /\ v_item = NoItem /\ v_out = <<>> /\ v_skipped = <<>> /\ v_err = "none" /\ v_pc = "idle"

VirtualInit ==
    /\ v_block \in SeqsUpTo(BlockEntities, MaxBlock)
    /\ v_exists \in BOOLEAN
    /\ v_scale \in Scalings
    /\ v_pos = 0 /\ v_seg = 0 /\ v_item = NoItem
    /\ v_out = <<>> /\ v_skipped = <<>> /\ v_err = "none" /\ v_pc = "begin"

\* Insert.has_scaling, Insert.has_uniform_scaling
has_scaling(scale) == scale[1] # 1 \/ scale[2] # 1 \/ scale[3] # 1
has_uniform_scaling(scale) == scale[1] = scale[2] /\ scale[2] = scale[3]

has_non_uniform_scaling_NoReflection(scale) ==
    IF has_scaling(scale) THEN ~has_uniform_scaling(scale) ELSE FALSE

\* lines 185-207
has_non_uniform_scaling(scale) ==
    IF has_scaling(scale)
    THEN IF has_uniform_scaling(scale) /\ scale[1] < 0 THEN TRUE
         ELSE ~has_uniform_scaling(scale)
    ELSE FALSE

\* skipped_entity_callback(entity, reason)
Skipped(origin, type, reason) == [origin |-> origin, dxftype |-> type, reason |-> reason]

\* lines 127-183: the block definition of the block reference is looked up
VirtualBegin ==
    /\ v_pc = "begin"
    /\ IF v_exists
       THEN /\ v_pc' = "disassemble" /\ v_pos' = 1 /\ UNCHANGED v_err
       ELSE /\ v_pc' = "done" /\ v_err' = "DXFStructureError" /\ UNCHANGED v_pos
    /\ UNCHANGED <<v_block, v_exists, v_scale, v_seg, v_item, v_out, v_skipped>>
    /\ UNCHANGED but_gvars

\* Ellipse.from_arc(entity): a new ELLIPSE
from_arc(e, origin) ==
    [dxftype |-> "ELLIPSE", origin |-> origin, transformable |-> TRUE,
     axis_error |-> e.axis_error]

\* lines 133-178: disassemble() runs up to its next yield, continue or end
DisassembleNext ==
    /\ v_pc = "disassemble"
    /\ UNCHANGED <<v_block, v_exists, v_scale, v_out, v_err>>
    /\ IF v_pos > Len(v_block)
       THEN /\ v_pc' = "done" /\ UNCHANGED <<v_pos, v_seg, v_item, v_skipped>>
       ELSE LET entity == v_block[v_pos]
                type == entity.dxftype
                non_uniform == has_non_uniform_scaling(v_scale)
                hand(item) == /\ v_item' = item /\ v_pc' = "transform"
                skip == /\ v_pos' = v_pos + 1 /\ v_seg' = 0
                        /\ UNCHANGED <<v_item, v_pc>>
            IN  IF v_seg > 0
                THEN \* lines 146-152: inside the segments of a polyline
                     IF v_seg > Len(entity.segments)
                     THEN skip /\ UNCHANGED v_skipped
                     ELSE /\ hand(IF entity.segments[v_seg] = "ARC"
                                   THEN from_arc(entity, v_pos)
                                   ELSE [dxftype |-> entity.segments[v_seg], origin |-> v_pos,
                                         transformable |-> TRUE, axis_error |-> FALSE])
                          /\ v_seg' = v_seg + 1
                          /\ UNCHANGED <<v_pos, v_skipped>>
                ELSE IF type = "ATTDEF"
                THEN skip /\ UNCHANGED v_skipped
                ELSE IF non_uniform /\ type \in {"ARC", "CIRCLE"}
                THEN /\ hand(from_arc(entity, v_pos))
                     /\ v_pos' = v_pos + 1 /\ UNCHANGED <<v_seg, v_skipped>>
                ELSE IF non_uniform /\ type \in {"LWPOLYLINE", "POLYLINE"} /\ entity.has_arc
                THEN /\ v_seg' = 1 /\ UNCHANGED <<v_pos, v_item, v_pc, v_skipped>>
                ELSE IF ~entity.copyable
                THEN /\ skip
                     /\ v_skipped' = Append(v_skipped, Skipped(v_pos, type, "non copyable"))
                ELSE IF type = "HATCH" /\ non_uniform /\ entity.critical
                THEN /\ skip
                     /\ v_skipped' = Append(v_skipped,
                            Skipped(v_pos, type, "unsupported non-uniform scaling"))
                ELSE /\ hand([dxftype |-> type, origin |-> v_pos,
                               transformable |-> entity.transformable,
                               axis_error |-> entity.axis_error])
                     /\ v_pos' = v_pos + 1 /\ UNCHANGED <<v_seg, v_skipped>>
    /\ UNCHANGED but_gvars

SIMPLE_ENTITIES ==
    {"LINE", "POINT", "LWPOLYLINE", "POLYLINE", "MESH", "SPLINE", "SOLID", "3DFACE", "TRACE",
     "IMAGE", "WIPEOUT", "XLINE", "RAY", "LIGHT", "HELIX"}
SCALED_ENTITIES == {"CIRCLE", "ARC", "MTEXT", "TEXT", "ATTRIB", "INSERT", "SHAPE", "HATCH"}

TransformResult_Propagates(item, scale) ==
    IF ~item.transformable THEN [err |-> "NotImplementedError", reason |-> ""]
    ELSE IF ~has_scaling(scale) THEN [err |-> "none", reason |-> ""]
    ELSE IF item.dxftype \in SIMPLE_ENTITIES \cup SCALED_ENTITIES THEN [err |-> "none", reason |-> ""]
    ELSE IF item.dxftype = "ELLIPSE"
    THEN IF has_non_uniform_scaling(scale) /\ item.axis_error
         THEN [err |-> "none", reason |-> "axis construction error"]
         ELSE [err |-> "none", reason |-> ""]
    ELSE [err |-> "none", reason |-> "unsupported entity"]

\* lines 209-320: what the body of the main loop does with one entity: the
\* exception that leaves the generator and the reason the entity is skipped
\* for ("": the entity is yielded)
TransformResult(item, scale) ==
    IF ~item.transformable THEN [err |-> "none", reason |-> "non transformable"]
    ELSE IF ~has_scaling(scale) THEN [err |-> "none", reason |-> ""]
    ELSE IF item.dxftype \in SIMPLE_ENTITIES \cup SCALED_ENTITIES THEN [err |-> "none", reason |-> ""]
    ELSE IF item.dxftype = "ELLIPSE"
    THEN IF has_non_uniform_scaling(scale) /\ item.axis_error
         THEN [err |-> "none", reason |-> "axis construction error"]
         ELSE [err |-> "none", reason |-> ""]
    ELSE [err |-> "none", reason |-> "unsupported entity"]

\* lines 209-320: the body of the main loop for the entity handed on
TransformItem ==
    /\ v_pc = "transform"
    /\ LET r == TransformResult(v_item, v_scale)
       IN  IF r.err # "none"
           THEN /\ v_err' = r.err /\ v_pc' = "done" /\ UNCHANGED <<v_out, v_skipped>>
           ELSE /\ v_pc' = "disassemble" /\ UNCHANGED v_err
                /\ IF r.reason # ""
                   THEN /\ v_skipped' = Append(v_skipped,
                                Skipped(v_item.origin, v_item.dxftype, r.reason))
                        /\ UNCHANGED v_out
                   ELSE /\ v_out' = Append(v_out, [dxftype |-> v_item.dxftype,
                                                    origin |-> v_item.origin])
                        /\ UNCHANGED v_skipped
    /\ UNCHANGED <<v_block, v_exists, v_scale, v_pos, v_seg, v_item>>
    /\ UNCHANGED but_gvars

\* ------------------------------------------------------------------------
\* what was yielded and what was reported for the block entity i
Yielded(i) == SelectSeq(v_out, LAMBDA y : y.origin = i)
Reported(i) == SelectSeq(v_skipped, LAMBDA c : c.origin = i)
\* unequal axis factors, or any reflection
NonUniform(scale) ==
    \/ scale[1] # scale[2] \/ scale[2] # scale[3]
    \/ scale[1] < 0 \/ scale[2] < 0 \/ scale[3] < 0
HasArcSegments(e) ==
    e.dxftype \in {"LWPOLYLINE", "POLYLINE"} /\ \E k \in DOMAIN e.segments : e.segments[k] = "ARC"

TransformRaises(i) ==
    LET e == v_block[i]
    IN  /\ ~e.transformable /\ e.copyable /\ e.dxftype # "ATTDEF"
        /\ ~(has_non_uniform_scaling(v_scale) /\
              (e.dxftype \in {"ARC", "CIRCLE"} \/
               (e.dxftype \in {"LWPOLYLINE", "POLYLINE"} /\ e.has_arc)))

\* C17: when transform_to_wcs of a block entity raises NotImplementedError,
\* the skipped-entity callback is invoked once for that entity, the entity
\* is not yielded, no exception reaches the caller, and all remaining
\* entities of the block are still processed: the generator ends after the
\* last entity of the block, and every entity that is not an ATTDEF has been
\* yielded or reported.
C17_NotImplementedSkips ==
    (v_pc = "done" /\ v_exists) =>
        \A i \in DOMAIN v_block : TransformRaises(i) =>
            /\ v_err = "none"
            /\ Reported(i) = <<Skipped(i, v_block[i].dxftype, "non transformable")>>
            /\ Yielded(i) = <<>>
            /\ v_pos = Len(v_block) + 1
            /\ \A j \in DOMAIN v_block :
                  \/ v_block[j].dxftype = "ATTDEF"
                  \/ Yielded(j) # <<>> \/ Reported(j) # <<>>

C17_Witness ==
    /\ v_pc = "done" /\ v_err = "none" /\ Len(v_block) = 2
    /\ TransformRaises(1) /\ v_block[2].dxftype = "LINE"
    /\ v_skipped = <<Skipped(1, v_block[1].dxftype, "non transformable")>>
    /\ v_out = <<[dxftype |-> "LINE", origin |-> 2]>>


\* ========================================================================
\* ProxyGraphic.virtual_entities (proxygraphic.py)
\* The buffer is a sequence of little-endian unsigned 32-bit words; indexes
\* and chunk sizes are counted in words (4 bytes), so the 8-byte chunk
\* header is two words: the size of the chunk, then its type code.
\* ========================================================================
MaxChunkWords == 5

\* the values a word of the buffer takes: chunk sizes and type codes
Words == {0, 1, 2, 3, 19, 99}

\* the members of the enumeration: EXTENTS = 1 .. UNICODE_TEXT2 = 38
ProxyGraphicTypes == 1..38

\* the members of the enumeration that name a method of ProxyGraphic
DecoderMethods == (2..14) \cup {16, 18, 19, 20} \cup (22..25) \cup {32, 33, 36, 38}

\* self._index: the first chunk starts behind 8 bytes
FirstChunk == 2

\* struct.unpack_from('<2L', buffer, offset=index) needs 8 bytes
HeaderWords == 2

\* the 8 bytes in front of the first chunk, which the decoder never reads
BufferHeader == <<0, 0>>

ProxyGraphicIdle ==
    /\ pg_buffer = <<>> /\ pg_index = 0 /\ pg_out = <<>> /\ pg_log = {}
    /\ pg_marker = 0 /\ pg_err = "none" /\ pg_pc = "idle"

ProxyGraphicInit ==
    /\ pg_buffer \in {BufferHeader \o chunks : chunks \in SeqsUpTo(Words, MaxChunkWords)}
    /\ pg_index = FirstChunk
    /\ pg_out = <<>> /\ pg_log = {}
    /\ pg_marker = 0
    /\ pg_err = "none" /\ pg_pc = "loop"

\* the header of the chunk the loop stands at
ChunkSize == pg_buffer[pg_index + 1]
ChunkType == pg_buffer[pg_index + 2]
HeaderReadable == pg_index + HeaderWords <= Len(pg_buffer)

\* self._buffer[index + 8: index + size]
ChunkData ==
    SubSeq(pg_buffer, pg_index + HeaderWords + 1,
           IF pg_index + ChunkSize <= Len(pg_buffer) THEN pg_index + ChunkSize
           ELSE Len(pg_buffer))

\* while index < len(buffer): the loop ends
virtual_entities_end ==
    /\ pg_pc = "loop" /\ pg_index >= Len(pg_buffer)
    /\ pg_pc' = "done"
    /\ UNCHANGED <<pg_buffer, pg_index, pg_out, pg_log, pg_marker, pg_err>>
    /\ UNCHANGED but_qvars

\* struct.unpack_from raises struct.error when less than 8 bytes are left
virtual_entities_truncated ==
    /\ pg_pc = "loop" /\ pg_index < Len(pg_buffer) /\ ~HeaderReadable
    /\ pg_err' = "struct.error" /\ pg_pc' = "raised"
    /\ UNCHANGED <<pg_buffer, pg_index, pg_out, pg_log, pg_marker>>
    /\ UNCHANGED but_qvars

UnknownTypeCode_Fatal(size, type) ==
    /\ pg_err' = "ValueError" /\ pg_pc' = "raised"
    /\ UNCHANGED <<pg_index, pg_log>>

\* except ValueError: logger.debug(...); index += size; continue
UnknownTypeCode(size, type) ==
    /\ pg_log' = pg_log \cup {<<"Unsupported Type Code", type>>}
    /\ pg_index' = pg_index + size
    /\ UNCHANGED <<pg_err, pg_pc>>

\* ProxyGraphicTypes(type_) raises ValueError
virtual_entities_unknown ==
    /\ pg_pc = "loop" /\ pg_index < Len(pg_buffer) /\ HeaderReadable
    /\ ChunkType \notin ProxyGraphicTypes
    /\ UnknownTypeCode(ChunkSize, ChunkType)
    /\ UNCHANGED <<pg_buffer, pg_out, pg_marker>>
    /\ UNCHANGED but_qvars

\* circle and circle_3p read their vertices and radius off a ByteStream, which
\* raises struct.error when the data runs out; the payload is scaled down to
\* one word. Every other entity decoder needs more data than a buffer of
\* the model holds.
circle(data) ==
    IF data = <<>> THEN [err |-> "struct.error", out |-> <<>>]
    ELSE [err |-> "none", out |-> <<"CIRCLE">>]

\* struct.unpack('<L', data) needs exactly 4 bytes
attribute_marker(data) ==
    IF Len(data) = 1 THEN [err |-> "none", marker |-> data[1]]
    ELSE [err |-> "struct.error", marker |-> pg_marker]

\* a chunk of a known type: decoded by its method, or logged as unsupported
virtual_entities_chunk ==
    /\ pg_pc = "loop" /\ pg_index < Len(pg_buffer) /\ HeaderReadable
    /\ ChunkType \in ProxyGraphicTypes
    /\ IF ChunkType \notin DecoderMethods
       THEN /\ pg_log' = pg_log \cup {<<"Unsupported feature", ChunkType>>}
            /\ pg_index' = pg_index + ChunkSize
            /\ UNCHANGED <<pg_out, pg_marker, pg_err, pg_pc>>
       ELSE IF ChunkType = 19
       THEN LET r == attribute_marker(ChunkData) IN
            /\ pg_marker' = r.marker
            /\ pg_err' = r.err
            /\ pg_pc' = IF r.err = "none" THEN "loop" ELSE "raised"
            /\ pg_index' = IF r.err = "none" THEN pg_index + ChunkSize ELSE pg_index
            /\ UNCHANGED <<pg_out, pg_log>>
       ELSE LET r == circle(ChunkData) IN
            /\ pg_out' = pg_out \o r.out
            /\ pg_err' = r.err
            /\ pg_pc' = IF r.err = "none" THEN "loop" ELSE "raised"
            /\ pg_index' = IF r.err = "none" THEN pg_index + ChunkSize ELSE pg_index
            /\ UNCHANGED <<pg_marker, pg_log>>
    /\ UNCHANGED pg_buffer
    /\ UNCHANGED but_qvars

\* C18: a chunk whose type code is not a member of ProxyGraphicTypes is
\* logged and skipped: the step that reads it raises nothing, yields
\* nothing, records the type code in the log and moves the index by the
\* size the chunk declares, where the following chunk starts; and whenever
\* decoding has raised, the index stands at a chunk of a known type or at a
\* header cut short by the end of the buffer, never at an unknown chunk.
C18_UnknownChunkSkipped ==
    /\ [](pg_pc = "raised" => (~HeaderReadable \/ ChunkType \in ProxyGraphicTypes))
    /\ [][(pg_pc = "loop" /\ pg_index < Len(pg_buffer) /\ HeaderReadable
             /\ ChunkType \notin ProxyGraphicTypes)
          => /\ pg_err' = "none" /\ pg_pc' = "loop"
             /\ pg_index' = pg_index + ChunkSize
             /\ <<"Unsupported Type Code", ChunkType>> \in pg_log'
             /\ pg_out' = pg_out /\ pg_marker' = pg_marker
             /\ pg_buffer' = pg_buffer]_vars

\* an unknown chunk comes first, and the entity of the chunk behind it has
\* been yielded
C18_Witness ==
    /\ pg_pc = "done" /\ pg_err = "none"
    /\ Len(pg_buffer) = 7 /\ pg_buffer[4] = 99 /\ pg_buffer[3] = 2
    /\ pg_buffer[6] = 2
    /\ pg_log = {<<"Unsupported Type Code", 99>>}
    /\ pg_out = <<"CIRCLE">>


\* C23: every iteration of the decoding loop strictly advances the read
\* index, whatever size the chunk header declares, so that the loop ends for
\* every finite buffer.
C23_EachIterationAdvances ==
    [][(pg_pc = "loop" /\ pg_pc' = "loop") => pg_index' > pg_index]_vars


\* ========================================================================
\* export_proxy_graphic (proxygraphic.py), VBAProject.export_data (dxfobj.py)
\* A payload is a sequence of bytes. A written tag is a record of its group
\* code and its value; the value is a sequence in every case: the one
\* integer of a length tag, the hex digits of a proxy-graphic data tag, the
\* bytes of a DXFBinaryTag.
\* ========================================================================
MaxPayload == 260

CHUNK_SIZE == 127

\* the byte a payload holds at each position, for the two payloads of a length
Patterns == {"ramp", "mirror"}
Payload(len, pattern) ==
    [i \in 1..len |-> IF pattern = "ramp" THEN (i * 7) % 256 ELSE 255 - (i % 256)]

\* the DXF version of the tag writer: R12 and R2000
Versions == {"AC1009", "AC1015"}

BinaryExportIdle ==
    /\ bx_payload = <<>> /\ bx_version = "" /\ bx_done = {}
    /\ pxg_tags = <<>> /\ pxg_err = "none" /\ vba_tags = <<>>

BinaryExportInit ==
    /\ \E len \in 0..MaxPayload, pattern \in Patterns : bx_payload = Payload(len, pattern)
    /\ bx_version \in Versions
    /\ bx_done = {}
    /\ pxg_tags = <<>> /\ pxg_err = "none" /\ vba_tags = <<>>

\* data[a:b] of Python, a and b counted from 0 and not negative
Slice(data, a, b) == SubSeq(data, a + 1, IF b <= Len(data) THEN b ELSE Len(data))

\* two upper-case hex digits for every byte, the high digit first
bytes_to_hexstr(data) ==
    [i \in 1..(2 * Len(data)) |->
        IF i % 2 = 1 THEN data[(i + 1) \div 2] \div 16 ELSE data[i \div 2] % 16]

RECURSIVE proxy_data_tags_OffByOne(_, _, _)
proxy_data_tags_OffByOne(data, index, data_code) ==
    IF index < Len(data)
    THEN <<[code |-> data_code, value |-> bytes_to_hexstr(Slice(data, index, index + CHUNK_SIZE + 1))]>>
         \o proxy_data_tags_OffByOne(data, index + CHUNK_SIZE + 1, data_code)
    ELSE <<>>

\* while index < length: write_tag2(data_code, hex_str); index += CHUNK_SIZE
RECURSIVE proxy_data_tags(_, _, _)
proxy_data_tags(data, index, data_code) ==
    IF index < Len(data)
    THEN <<[code |-> data_code, value |-> bytes_to_hexstr(Slice(data, index, index + CHUNK_SIZE))]>>
         \o proxy_data_tags(data, index + CHUNK_SIZE, data_code)
    ELSE <<>>

\* export_proxy_graphic(data, tagwriter, length_code=160, data_code=310)
export_proxy_graphic ==
    /\ bx_version # "" /\ "export_proxy_graphic" \notin bx_done
    /\ bx_done' = bx_done \cup {"export_proxy_graphic"}
    /\ IF bx_version = "AC1009"
       THEN pxg_err' = "AssertionError" /\ UNCHANGED pxg_tags
       ELSE /\ pxg_err' = "none"
            /\ pxg_tags' =
                 IF Len(bx_payload) = 0 THEN pxg_tags
                 ELSE pxg_tags \o <<[code |-> 160, value |-> <<Len(bx_payload)>>]>>
                               \o proxy_data_tags(bx_payload, 0, 310)
    /\ UNCHANGED <<bx_payload, bx_version, vba_tags>>
    /\ UNCHANGED but_bvars

\* while data: write_tag(DXFBinaryTag(310, data[:127])); data = data[127:]
RECURSIVE vba_data_tags(_)
vba_data_tags(data) ==
    IF data # <<>>
    THEN <<[code |-> 310, value |-> Slice(data, 0, 127)]>>
         \o vba_data_tags(Slice(data, 127, Len(data)))
    ELSE <<>>

VBAProject_export_data ==
    /\ bx_version # "" /\ "export_data" \notin bx_done
    /\ bx_done' = bx_done \cup {"export_data"}
    /\ vba_tags' = vba_tags \o vba_data_tags(bx_payload)
    /\ UNCHANGED <<bx_payload, bx_version, pxg_tags, pxg_err>>
    /\ UNCHANGED but_bvars

\* the byte sequence a hex string stands for
hexstr_to_bytes(hex) ==
    [i \in 1..(Len(hex) \div 2) |-> hex[2 * i - 1] * 16 + hex[2 * i]]

\* the tags of group code 310 in the order written
RECURSIVE DataTags(_)
DataTags(written) ==
    IF written = <<>> THEN <<>>
    ELSE (IF Head(written).code = 310 THEN <<Head(written)>> ELSE <<>>)
         \o DataTags(Tail(written))

RECURSIVE Concatenation(_)
Concatenation(fragments) ==
    IF fragments = <<>> THEN <<>>
    ELSE Head(fragments) \o Concatenation(Tail(fragments))

ProxyFragments ==
    [i \in 1..Len(DataTags(pxg_tags)) |-> hexstr_to_bytes(DataTags(pxg_tags)[i].value)]
VBAFragments == [i \in 1..Len(vba_tags) |-> vba_tags[i].value]

\* C19: when export_proxy_graphic has returned, the data tags it wrote
\* follow the length tag without a gap, each stands for at least one and at
\* most 127 bytes (twice as many hex digits), and the fragments concatenated
\* in the order written are the payload; when VBAProject.export_data has
\* returned, every tag it wrote is a data tag of at least one and at most
\* 127 bytes and the fragments concatenated are the payload.
C19_ChunksCarryPayload ==
    /\ ("export_proxy_graphic" \in bx_done /\ pxg_err = "none")
       => /\ \A i \in 1..Len(ProxyFragments) :
                /\ Len(ProxyFragments[i]) \in 1..127
                /\ Len(DataTags(pxg_tags)[i].value) = 2 * Len(ProxyFragments[i])
          /\ Concatenation(ProxyFragments) = bx_payload
          /\ \A i \in 2..Len(pxg_tags) : pxg_tags[i].code = 310
          /\ bx_payload # <<>> => pxg_tags[1] = [code |-> 160, value |-> <<Len(bx_payload)>>]
    /\ "export_data" \in bx_done
       => /\ \A i \in 1..Len(vba_tags) :
                vba_tags[i].code = 310 /\ Len(vba_tags[i].value) \in 1..127
          /\ Concatenation(VBAFragments) = bx_payload

\* both functions have written a payload that needs three data tags, the
\* last one shorter than the others
C19_Witness ==
    /\ bx_done = {"export_proxy_graphic", "export_data"} /\ pxg_err = "none"
    /\ Len(bx_payload) > 2 * 127 /\ Len(bx_payload) < 3 * 127
    /\ Len(vba_tags) = 3 /\ Len(pxg_tags) = 4
    /\ Len(vba_tags[3].value) = Len(bx_payload) - 2 * 127


\* ========================================================================
\* Matrix44 (math/matrix44.py)
\* A Matrix44 object is a place of the heap; its value is the list of its
\* 16 components, row by row. The matrices of the model have integer
\* components and a determinant of -1, 0 or 1, so that 1. / det is exact.
\* ========================================================================
MaxMatrices == 3

\* identity, translation, reflection, shear, projection (singular), rotation
\* about the z-axis by 90 degrees
BaseMatrices == {
    <<1, 0, 0, 0,  0, 1, 0, 0,  0, 0, 1, 0,  0, 0, 0, 1>>,
    <<1, 0, 0, 0,  0, 1, 0, 0,  0, 0, 1, 0,  1, 2, 3, 1>>,
    <<-1, 0, 0, 0,  0, 1, 0, 0,  0, 0, 1, 0,  0, 0, 0, 1>>,
    <<1, 1, 0, 0,  0, 1, 0, 0,  0, 0, 1, 0,  0, 0, 0, 1>>,
    <<1, 0, 0, 0,  0, 0, 0, 0,  0, 0, 1, 0,  0, 0, 0, 1>>,
    <<0, 1, 0, 0,  -1, 0, 0, 0,  0, 0, 1, 0,  0, 0, 0, 1>> }

\* what the last call returned: a Matrix44 (a place of the heap), a float or
\* None
Returned(kind, value) == [kind |-> kind, value |-> value]

Matrix44Idle ==
    /\ mx_heap = <<>> /\ mx_op = "none" /\ mx_args = <<>>
    /\ mx_ret = Returned("None", 0) /\ mx_err = "none"

Matrix44Init ==
    /\ mx_heap \in [1..2 -> BaseMatrices]
    /\ mx_op = "none" /\ mx_args = <<>>
    /\ mx_ret = Returned("None", 0) /\ mx_err = "none"

\* the components __imul__ assigns to self.matrix
imul_matrix(m1, m2) == <<
    m1[1] * m2[1] + m1[2] * m2[5] + m1[3] * m2[9] + m1[4] * m2[13],
    m1[1] * m2[2] + m1[2] * m2[6] + m1[3] * m2[10] + m1[4] * m2[14],
    m1[1] * m2[3] + m1[2] * m2[7] + m1[3] * m2[11] + m1[4] * m2[15],
    m1[1] * m2[4] + m1[2] * m2[8] + m1[3] * m2[12] + m1[4] * m2[16],
    m1[5] * m2[1] + m1[6] * m2[5] + m1[7] * m2[9] + m1[8] * m2[13],
    m1[5] * m2[2] + m1[6] * m2[6] + m1[7] * m2[10] + m1[8] * m2[14],
    m1[5] * m2[3] + m1[6] * m2[7] + m1[7] * m2[11] + m1[8] * m2[15],
    m1[5] * m2[4] + m1[6] * m2[8] + m1[7] * m2[12] + m1[8] * m2[16],
    m1[9] * m2[1] + m1[10] * m2[5] + m1[11] * m2[9] + m1[12] * m2[13],
    m1[9] * m2[2] + m1[10] * m2[6] + m1[11] * m2[10] + m1[12] * m2[14],
    m1[9] * m2[3] + m1[10] * m2[7] + m1[11] * m2[11] + m1[12] * m2[15],
    m1[9] * m2[4] + m1[10] * m2[8] + m1[11] * m2[12] + m1[12] * m2[16],
    m1[13] * m2[1] + m1[14] * m2[5] + m1[15] * m2[9] + m1[16] * m2[13],
    m1[13] * m2[2] + m1[14] * m2[6] + m1[15] * m2[10] + m1[16] * m2[14],
    m1[13] * m2[3] + m1[14] * m2[7] + m1[15] * m2[11] + m1[16] * m2[15],
    m1[13] * m2[4] + m1[14] * m2[8] + m1[15] * m2[12] + m1[16] * m2[16] >>

\* determinant(): reads self.matrix and returns the sum of the 24 products
determinant(m) ==
    m[1] * m[6] * m[11] * m[16] - m[1] * m[6] * m[12] * m[15]
    + m[1] * m[7] * m[12] * m[14] - m[1] * m[7] * m[10] * m[16]
    + m[1] * m[8] * m[10] * m[15] - m[1] * m[8] * m[11] * m[14]
    - m[2] * m[7] * m[12] * m[13] + m[2] * m[7] * m[9] * m[16]
    - m[2] * m[8] * m[9] * m[15] + m[2] * m[8] * m[11] * m[13]
    - m[2] * m[5] * m[11] * m[16] + m[2] * m[5] * m[12] * m[15]
    + m[3] * m[8] * m[9] * m[14] - m[3] * m[8] * m[10] * m[13]
    + m[3] * m[5] * m[10] * m[16] - m[3] * m[5] * m[12] * m[14]
    + m[3] * m[6] * m[12] * m[13] - m[3] * m[6] * m[9] * m[16]
    - m[4] * m[5] * m[10] * m[15] + m[4] * m[5] * m[11] * m[14]
    - m[4] * m[6] * m[11] * m[13] + m[4] * m[6] * m[9] * m[15]
    - m[4] * m[7] * m[9] * m[14] + m[4] * m[7] * m[10] * m[13]

\* the components inverse() assigns to self.matrix, f = 1. / det
inverse_matrix(m, f) == <<
    (m[7] * m[12] * m[14] - m[8] * m[11] * m[14] + m[8] * m[10] * m[15]
        - m[6] * m[12] * m[15] - m[7] * m[10] * m[16] + m[6] * m[11] * m[16]) * f,
    (m[4] * m[11] * m[14] - m[3] * m[12] * m[14] - m[4] * m[10] * m[15]
        + m[2] * m[12] * m[15] + m[3] * m[10] * m[16] - m[2] * m[11] * m[16]) * f,
    (m[3] * m[8] * m[14] - m[4] * m[7] * m[14] + m[4] * m[6] * m[15]
        - m[2] * m[8] * m[15] - m[3] * m[6] * m[16] + m[2] * m[7] * m[16]) * f,
    (m[4] * m[7] * m[10] - m[3] * m[8] * m[10] - m[4] * m[6] * m[11]
        + m[2] * m[8] * m[11] + m[3] * m[6] * m[12] - m[2] * m[7] * m[12]) * f,
    (m[8] * m[11] * m[13] - m[7] * m[12] * m[13] - m[8] * m[9] * m[15]
        + m[5] * m[12] * m[15] + m[7] * m[9] * m[16] - m[5] * m[11] * m[16]) * f,
    (m[3] * m[12] * m[13] - m[4] * m[11] * m[13] + m[4] * m[9] * m[15]
        - m[1] * m[12] * m[15] - m[3] * m[9] * m[16] + m[1] * m[11] * m[16]) * f,
    (m[4] * m[7] * m[13] - m[3] * m[8] * m[13] - m[4] * m[5] * m[15]
        + m[1] * m[8] * m[15] + m[3] * m[5] * m[16] - m[1] * m[7] * m[16]) * f,
    (m[3] * m[8] * m[9] - m[4] * m[7] * m[9] + m[4] * m[5] * m[11]
        - m[1] * m[8] * m[11] - m[3] * m[5] * m[12] + m[1] * m[7] * m[12]) * f,
    (m[6] * m[12] * m[13] - m[8] * m[10] * m[13] + m[8] * m[9] * m[14]
        - m[5] * m[12] * m[14] - m[6] * m[9] * m[16] + m[5] * m[10] * m[16]) * f,
    (m[4] * m[10] * m[13] - m[2] * m[12] * m[13] - m[4] * m[9] * m[14]
        + m[1] * m[12] * m[14] + m[2] * m[9] * m[16] - m[1] * m[10] * m[16]) * f,
    (m[2] * m[8] * m[13] - m[4] * m[6] * m[13] + m[4] * m[5] * m[14]
        - m[1] * m[8] * m[14] - m[2] * m[5] * m[16] + m[1] * m[6] * m[16]) * f,
    (m[4] * m[6] * m[9] - m[2] * m[8] * m[9] - m[4] * m[5] * m[10]
        + m[1] * m[8] * m[10] + m[2] * m[5] * m[12] - m[1] * m[6] * m[12]) * f,
    (m[7] * m[10] * m[13] - m[6] * m[11] * m[13] - m[7] * m[9] * m[14]
        + m[5] * m[11] * m[14] + m[6] * m[9] * m[15] - m[5] * m[10] * m[15]) * f,
    (m[2] * m[11] * m[13] - m[3] * m[10] * m[13] + m[3] * m[9] * m[14]
        - m[1] * m[11] * m[14] - m[2] * m[9] * m[15] + m[1] * m[10] * m[15]) * f,
    (m[3] * m[6] * m[13] - m[2] * m[7] * m[13] - m[3] * m[5] * m[14]
        + m[1] * m[7] * m[14] + m[2] * m[5] * m[15] - m[1] * m[6] * m[15]) * f,
    (m[2] * m[7] * m[9] - m[3] * m[6] * m[9] + m[3] * m[5] * m[10]
        - m[1] * m[7] * m[10] - m[2] * m[5] * m[11] + m[1] * m[6] * m[11]) * f >>

\* Matrix44._identity
Identity == <<1, 0, 0, 0,  0, 1, 0, 0,  0, 0, 1, 0,  0, 0, 0, 1>>

\* copy(): a new object made of the components of self
copy(heap, self) == Append(heap, heap[self])

\* __imul__: replaces the components of self, returns self
imul(heap, self, other) ==
    [heap EXCEPT ![self] = imul_matrix(heap[self], heap[other])]

mul_InPlace(heap, self, other) ==
    [heap |-> imul(heap, self, other), ret |-> Returned("Matrix44", self)]

\* __mul__: res_matrix = self.copy(); res_matrix.__imul__(other); return res_matrix
mul(heap, self, other) ==
    LET copied == copy(heap, self)
        res_matrix == Len(copied)
    IN [heap |-> imul(copied, res_matrix, other), ret |-> Returned("Matrix44", res_matrix)]

Matrix44_mul ==
    /\ mx_heap # <<>> /\ Len(mx_heap) < MaxMatrices
    /\ \E self \in 1..Len(mx_heap), other \in 1..Len(mx_heap) :
         LET r == mul(mx_heap, self, other) IN
         /\ mx_heap' = r.heap
         /\ mx_ret' = r.ret
         /\ mx_args' = <<self, other>>
    /\ mx_op' = "mul" /\ mx_err' = "none"
    /\ UNCHANGED but_mvars

Matrix44_determinant ==
    /\ mx_heap # <<>>
    /\ \E self \in 1..Len(mx_heap) :
         /\ mx_ret' = Returned("float", determinant(mx_heap[self]))
         /\ mx_args' = <<self>>
    /\ mx_op' = "determinant" /\ mx_err' = "none"
    /\ UNCHANGED mx_heap
    /\ UNCHANGED but_mvars

\* inverse(): det = self.determinant(); f = 1. / det raises ZeroDivisionError
\* for a singular matrix; then self.matrix is replaced and None returned
Matrix44_inverse ==
    /\ mx_heap # <<>>
    /\ \E self \in 1..Len(mx_heap) :
         LET det == determinant(mx_heap[self]) IN
         /\ mx_args' = <<self>>
         /\ IF det = 0
            THEN mx_err' = "ZeroDivisionError" /\ UNCHANGED mx_heap
            ELSE /\ mx_err' = "none"
                 /\ mx_heap' = [mx_heap EXCEPT ![self] = inverse_matrix(mx_heap[self], 1 \div det)]
    /\ mx_op' = "inverse" /\ mx_ret' = Returned("None", 0)
    /\ UNCHANGED but_mvars

\* the objects a call is applied to keep their components
OperandsKept == \A k \in 1..Len(mx_args') : mx_heap'[mx_args'[k]] = mx_heap[mx_args'[k]]
\* every object that existed before the call keeps its components
HeapKept == \A k \in 1..Len(mx_heap) : mx_heap'[k] = mx_heap[k]

\* C20 as stated: multiplication, inversion and determinant leave the
\* matrices they are applied to as they were.
C20_Original ==
    [][mx_op' \in {"mul", "inverse", "determinant"} => OperandsKept]_vars

\* C20 as amended: multiplication and determinant modify no existing
\* matrix, and multiplication returns the product as a new object;
\* inverse() returns None and replaces the components of the matrix it is
\* applied to by those of its inverse, leaving every other matrix alone, and
\* leaves the matrix as it was only when it raises ZeroDivisionError for a
\* singular matrix.
C20_MulDetPureInverseInPlace ==
    [][/\ mx_op' = "determinant"
          => /\ HeapKept /\ Len(mx_heap') = Len(mx_heap) /\ mx_err' = "none"
             /\ mx_ret' = Returned("float", determinant(mx_heap[mx_args'[1]]))
       /\ mx_op' = "mul"
          => /\ HeapKept /\ Len(mx_heap') = Len(mx_heap) + 1 /\ mx_err' = "none"
             /\ mx_ret' = Returned("Matrix44", Len(mx_heap'))
             /\ mx_heap'[Len(mx_heap')]
                  = imul_matrix(mx_heap[mx_args'[1]], mx_heap[mx_args'[2]])
       /\ mx_op' = "inverse"
          => LET self == mx_args'[1] IN
             /\ Len(mx_heap') = Len(mx_heap)
             /\ \A k \in 1..Len(mx_heap) : k # self => mx_heap'[k] = mx_heap[k]
             /\ mx_ret' = Returned("None", 0)
             /\ IF determinant(mx_heap[self]) = 0
                THEN mx_err' = "ZeroDivisionError" /\ mx_heap'[self] = mx_heap[self]
                ELSE /\ mx_err' = "none"
                     /\ imul_matrix(mx_heap'[self], mx_heap[self]) = Identity
                     /\ imul_matrix(mx_heap[self], mx_heap'[self]) = Identity]_vars

\* inverse() has been applied to the translation by (1, 2, 3), which now
\* holds the translation by (-1, -2, -3), and the product of the two objects
\* has been returned as a third object
C20_Witness ==
    /\ mx_op = "mul" /\ mx_err = "none" /\ Len(mx_heap) = 3
    /\ mx_args = <<1, 2>> /\ mx_ret = Returned("Matrix44", 3)
    /\ mx_heap[1] = <<1, 0, 0, 0,  0, 1, 0, 0,  0, 0, 1, 0,  -1, -2, -3, 1>>
    /\ mx_heap[2] = <<0, 1, 0, 0,  -1, 0, 0, 0,  0, 0, 1, 0,  0, 0, 0, 1>>
    /\ mx_heap[3] = <<0, 1, 0, 0,  -1, 0, 0, 0,  0, 0, 1, 0,  2, -1, -3, 1>>


\* ========================================================================
\* Dimension.export_entity (entities/dimension.py)
\* The tag writer's output is the sequence of what was written: a subclass
\* marker or a DXF attribute, each by its name.
\* ========================================================================
MaxDimType == 70

Marker(name) == [kind |-> "subclass", name |-> name]
Attrib(name) == [kind |-> "attrib", name |-> name]

\* the attributes of the R12 export and of the AcDbDimension subclass
R12Attribs ==
    <<"geometry", "dimstyle", "defpoint", "text_midpoint", "insert", "dimtype", "text",
      "defpoint2", "defpoint3", "defpoint4", "defpoint5", "leader_length", "angle",
      "horizontal_direction", "oblique_angle", "text_rotation">>
DimensionAttribs ==
    <<"version", "geometry", "dimstyle", "defpoint", "text_midpoint", "insert", "dimtype",
      "attachment_point", "line_spacing_style", "line_spacing_factor",
      "actual_measurement", "unknown1", "flip_arrow_1", "flip_arrow_2", "text",
      "oblique_angle", "text_rotation", "horizontal_direction", "extrusion">>

\* the attributes a DIMENSION holds: every one, or the required ones only
AttribSets ==
    { {R12Attribs[i] : i \in 1..Len(R12Attribs)}
        \cup {DimensionAttribs[i] : i \in 1..Len(DimensionAttribs)},
      {"dimtype", "defpoint", "geometry"} }

DimensionIdle ==
    /\ dm_dimtype = 0 /\ dm_attribs = {} /\ dm_version = "" /\ dm_tags = <<>>
    /\ dm_pc = "idle"

DimensionInit ==
    /\ dm_dimtype \in 0..MaxDimType
    /\ dm_attribs \in AttribSets
    /\ dm_version \in {"AC1009", "AC1015", "AC1032"}
    /\ dm_tags = <<>> /\ dm_pc = "ready"

\* dxf.export_dxf_attribs: the listed attributes the entity holds, in order
RECURSIVE export_dxf_attribs(_, _)
export_dxf_attribs(attribs, names) ==
    IF names = <<>> THEN <<>>
    ELSE (IF Head(names) \in attribs THEN <<Attrib(Head(names))>> ELSE <<>>)
         \o export_dxf_attribs(attribs, Tail(names))

dimtype_WithFlags(value) == value

\* dimtype: self.dxf.dimtype & 15
dimtype(value) == value % 16

\* the branch of export_entity the value of dim_type takes
geometry_subclass(dim_type, attribs) ==
    IF dim_type = 0
    THEN <<Marker("AcDbAlignedDimension")>>
         \o export_dxf_attribs(attribs, <<"defpoint2", "defpoint3", "angle">>)
         \o <<Marker("AcDbRotatedDimension")>>
    ELSE IF dim_type = 1
    THEN <<Marker("AcDbAlignedDimension")>>
         \o export_dxf_attribs(attribs, <<"defpoint2", "defpoint3", "angle">>)
    ELSE IF dim_type = 2
    THEN <<Marker("AcDb2LineAngularDimension")>>
         \o export_dxf_attribs(attribs, <<"defpoint2", "defpoint3", "defpoint4", "defpoint5">>)
    ELSE IF dim_type = 3
    THEN <<Marker("AcDbDiametricDimension")>>
         \o export_dxf_attribs(attribs, <<"defpoint4", "leader_length">>)
    ELSE IF dim_type = 4
    THEN <<Marker("AcDbRadialDimension")>>
         \o export_dxf_attribs(attribs, <<"defpoint4", "leader_length">>)
    ELSE IF dim_type = 5
    THEN <<Marker("AcDb3PointAngularDimension")>>
         \o export_dxf_attribs(attribs, <<"defpoint2", "defpoint3", "defpoint4", "defpoint5">>)
    ELSE IF dim_type = 6
    THEN <<Marker("AcDbOrdinateDimension")>>
         \o export_dxf_attribs(attribs, <<"defpoint2", "defpoint3">>)
    ELSE <<>>

Dimension_export_entity ==
    /\ dm_pc = "ready"
    /\ dm_tags' =
         IF dm_version = "AC1009"
         THEN export_dxf_attribs(dm_attribs, R12Attribs)
         ELSE <<Marker("AcDbDimension")>>
              \o export_dxf_attribs(dm_attribs, DimensionAttribs)
              \o geometry_subclass(dimtype(dm_dimtype), dm_attribs)
    /\ dm_pc' = "done"
    /\ UNCHANGED <<dm_dimtype, dm_attribs, dm_version>>
    /\ UNCHANGED but_dvars

\* the subclass markers written behind AcDbDimension, in order
RECURSIVE WrittenSubclasses(_)
WrittenSubclasses(written) ==
    IF written = <<>> THEN <<>>
    ELSE (IF Head(written).kind = "subclass" /\ Head(written).name # "AcDbDimension"
          THEN <<Head(written).name>> ELSE <<>>)
         \o WrittenSubclasses(Tail(written))

\* the geometry subclass of a dimension type without its flags
SelectedSubclass(t) ==
    CASE t \in {0, 1} -> "AcDbAlignedDimension"
      [] t = 2 -> "AcDb2LineAngularDimension"
      [] t = 5 -> "AcDb3PointAngularDimension"
      [] t = 3 -> "AcDbDiametricDimension"
      [] t = 4 -> "AcDbRadialDimension"
      [] t = 6 -> "AcDbOrdinateDimension"

\* the position of the first subclass marker behind AcDbDimension, 0 if none
FirstGeometryMarker ==
    LET at == {i \in 2..Len(dm_tags) : dm_tags[i].kind = "subclass"}
    IN IF at = {} THEN 0 ELSE Min(at)

\* C21: exported for a DXF version after R12, a DIMENSION whose dimtype
\* without flags (dimtype & 15) is one of 0..6 gets the one geometry
\* subclass that value selects: its marker is the first one behind
\* AcDbDimension and no other geometry subclass is written; the only other
\* marker is the empty AcDbRotatedDimension that closes a linear dimension
\* (0), and no attribute follows it.
C21_OneGeometrySubclass ==
    (dm_pc = "done" /\ dm_version # "AC1009" /\ dm_dimtype % 16 \in 0..6)
    => LET t == dm_dimtype % 16
           subs == WrittenSubclasses(dm_tags)
       IN /\ dm_tags[1] = Marker("AcDbDimension")
          /\ subs = IF t = 0 THEN <<SelectedSubclass(t), "AcDbRotatedDimension">>
                    ELSE <<SelectedSubclass(t)>>
          /\ t = 0 => dm_tags[Len(dm_tags)] = Marker("AcDbRotatedDimension")
          /\ \A i \in 1..Len(dm_tags) :
                (dm_tags[i].kind = "attrib" /\ i > FirstGeometryMarker)
                => dm_tags[i].name \in
                     (CASE t \in {0, 1} -> {"defpoint2", "defpoint3", "angle"}
                        [] t \in {2, 5} -> {"defpoint2", "defpoint3", "defpoint4", "defpoint5"}
                        [] t \in {3, 4} -> {"defpoint4", "leader_length"}
                        [] t = 6 -> {"defpoint2", "defpoint3"})

\* a 3-point angular dimension with flag 64 set has been exported with its
\* four definition points
C21_Witness ==
    /\ dm_pc = "done" /\ dm_version = "AC1015" /\ dm_dimtype = 69
    /\ WrittenSubclasses(dm_tags) = <<"AcDb3PointAngularDimension">>
    /\ Len(dm_tags) = 25
    /\ dm_tags[Len(dm_tags)] = Attrib("defpoint5")


\* ========================================================================
\* plain_text (entities/mtext.py)
\* A text is a sequence of characters; "\\" is the backslash and "\n" the
\* line break.
\* ========================================================================
MaxText == 4

TextAlphabet == {"\\", "{", "}", "P", "L", "a", ";", "S", "%", "d"}

\* \L{bold}\lplain\Pnext
FormattedExample ==
    <<"\\", "L", "{", "b", "o", "l", "d", "}", "\\", "l", "p", "l", "a", "i", "n",
      "\\", "P", "n", "e", "x", "t">>

ONE_CHAR_COMMANDS_NoUnderline == {"P", "O", "o", "K", "k", "X"}

ONE_CHAR_COMMANDS == {"P", "L", "l", "O", "o", "K", "k", "X"}

\* SPECIAL_CHARS.get(special_char, "")
SPECIAL_CHARS(special_char) == IF special_char = "d" THEN <<"°">> ELSE <<>>

PlainTextIdle == pt_text = <<>> /\ pt_ret = [kind |-> "none"] /\ pt_pc = "idle"

PlainTextInit ==
    /\ pt_text \in SeqsUpTo(TextAlphabet, MaxText) \cup {FormattedExample}
    /\ pt_ret = [kind |-> "none"] /\ pt_pc = "ready"

\* the loop of a command of more than one character: pops up to the ';',
\* appending the user data of a stacking command; IndexError ends the text
RECURSIVE long_command(_, _, _, _)
long_command(text, i, chars, stacking) ==
    IF i > Len(text) THEN [chars |-> chars, next |-> i, ended |-> TRUE]
    ELSE IF text[i] = ";" THEN [chars |-> chars, next |-> i + 1, ended |-> FALSE]
    ELSE long_command(text, i + 1, IF stacking THEN Append(chars, text[i]) ELSE chars, stacking)

\* the while loop of plain_text: i is the next character of the text to pop
RECURSIVE plain_chars(_, _, _)
plain_chars(text, i, chars) ==
    IF i > Len(text) THEN chars
    ELSE LET char == text[i] IN
      IF char = "\\"
      THEN IF i + 1 > Len(text) THEN chars
           ELSE LET cmd == text[i + 1] IN
             IF cmd \in {"\\", "{", "}"} THEN plain_chars(text, i + 2, Append(chars, cmd))
             ELSE IF cmd \in ONE_CHAR_COMMANDS
             THEN plain_chars(text, i + 2, IF cmd = "P" THEN Append(chars, "\n") ELSE chars)
             ELSE IF cmd = ";" THEN plain_chars(text, i + 2, chars)
             ELSE LET r == long_command(text, i + 2, chars, cmd = "S") IN
                  IF r.ended THEN r.chars ELSE plain_chars(text, r.next, r.chars)
      ELSE IF char \in {"{", "}"} THEN plain_chars(text, i + 1, chars)
      ELSE IF char = "%"
      THEN IF i + 1 <= Len(text) /\ text[i + 1] = "%"
           THEN IF i + 2 <= Len(text)
                THEN plain_chars(text, i + 3, chars \o SPECIAL_CHARS(text[i + 2]))
                ELSE plain_chars(text, i + 2, chars)
           ELSE plain_chars(text, i + 1, Append(chars, char))
      ELSE plain_chars(text, i + 1, Append(chars, char))

\* result.split('\n')
RECURSIVE split_lines(_, _)
split_lines(chars, part) ==
    IF chars = <<>> THEN <<part>>
    ELSE IF Head(chars) = "\n" THEN <<part>> \o split_lines(Tail(chars), <<>>)
    ELSE split_lines(Tail(chars), Append(part, Head(chars)))

plain_text(text, split) ==
    LET result == plain_chars(text, 1, <<>>)
    IN IF split THEN [kind |-> "list", lines |-> split_lines(result, <<>>)]
       ELSE [kind |-> "str", str |-> result]

PlainText ==
    /\ pt_pc = "ready"
    /\ \E split \in BOOLEAN : pt_ret' = plain_text(pt_text, split)
    /\ pt_pc' = "done"
    /\ UNCHANGED pt_text
    /\ UNCHANGED but_xtvars

\* a text whose only special characters are grouping braces and backslashes
\* that start a one-character command
OnlyOneCharCommands(text) ==
    /\ \A i \in 1..Len(text) : text[i] \notin {"%", ";", "S", "d"}
    /\ \A i \in 1..Len(text) :
         text[i] = "\\" => (i < Len(text) /\ text[i + 1] \in ONE_CHAR_COMMANDS)

\* what is left of such a text, position by position
RECURSIVE Stripped(_, _)
Stripped(text, i) ==
    IF i > Len(text) THEN <<>>
    ELSE (IF text[i] \in {"\\", "{", "}"} THEN <<>>
          ELSE IF i > 1 /\ text[i - 1] = "\\"
          THEN (IF text[i] = "P" THEN <<"\n">> ELSE <<>>)
          ELSE <<text[i]>>)
         \o Stripped(text, i + 1)

\* C22: plain_text returns the text without its one-character formatting
\* commands and grouping braces, with a line break for every \P; for
\* \L{bold}\lplain\Pnext that is 'boldplain', line break, 'next', and the
\* list of 'boldplain' and 'next' when split is requested.
C22_PlainTextStrips ==
    pt_pc = "done" =>
      /\ OnlyOneCharCommands(pt_text)
         => /\ pt_ret.kind = "str" => pt_ret.str = Stripped(pt_text, 1)
            /\ pt_ret.kind = "list" => pt_ret.lines = split_lines(Stripped(pt_text, 1), <<>>)
      /\ pt_text = FormattedExample
         => /\ pt_ret.kind = "str" =>
                 pt_ret.str = <<"b", "o", "l", "d", "p", "l", "a", "i", "n", "\n",
                                "n", "e", "x", "t">>
            /\ pt_ret.kind = "list" =>
                 pt_ret.lines = << <<"b", "o", "l", "d", "p", "l", "a", "i", "n">>,
                                   <<"n", "e", "x", "t">> >>

\* the formatted text of the example has been split into its two lines
C22_Witness ==
    /\ pt_pc = "done" /\ pt_text = FormattedExample /\ pt_ret.kind = "list"
    /\ Len(pt_ret.lines) = 2


\* ========================================================================
\* ProxyGraphic chunk decoders (proxygraphic.py): circular_arc, text2,
\* unicode_text2, _get_style, _build_dxf_attribs
\* A chunk is the record of the values its decoder reads off the data; a
\* dict is a function of its keys. Angles in radians are counted in quarter
\* turns, a start vector is one of the four unit vectors of the plane.
\* ========================================================================
MaxChunks == 2

Chunk(type, center, radius, start_vec, sweep_angle, font) ==
    [type |-> type, center |-> center, radius |-> radius, start_vec |-> start_vec,
     sweep_angle |-> sweep_angle, font |-> font]

DecodedChunks ==
    { Chunk("CIRCULAR_ARC", c, r, v, 1, "") :
        c \in {<<0, 0, 0>>, <<5, 7, 0>>}, r \in {1, 3}, v \in {<<1, 0, 0>>, <<0, -1, 0>>} }
    \cup { Chunk(t, <<0, 0, 0>>, 0, <<1, 0, 0>>, 0, f) :
             t \in {"TEXT2", "UNICODE_TEXT2"}, f \in {"a", "A", "b"} }

\* the text styles of the document: name and font of each
Style(name, font) == [name |-> name, font |-> font]
StyleTables == { {}, {Style("b", "a")}, {Style("a", "b")} }

\* the attributes the attribute chunks decoded so far have set
DecoderAttribs ==
    { [layer |-> "0", color |-> 256, linetype |-> "BYLAYER", lineweight |-> -3,
       ltscale |-> 1, true_color |-> -1],
      [layer |-> "L1", color |-> 1, linetype |-> "DASHED", lineweight |-> 25,
       ltscale |-> 2, true_color |-> 255] }

ProxyDecodeIdle ==
    /\ pd_doc = FALSE /\ pd_styles = {} /\ pd_textstyles = {} /\ pd_attr = <<>>
    /\ pd_chunks = <<>> /\ pd_pos = 0 /\ pd_out = <<>> /\ pd_added = <<>>
    /\ pd_err = "none"

\* __init__: textstyles = {style.dxf.font: style.dxf.name for style in doc.styles}
ProxyDecodeInit ==
    /\ pd_doc \in BOOLEAN
    /\ pd_styles \in (IF pd_doc THEN StyleTables ELSE {{}})
    /\ pd_textstyles = {<<s.font, s.name>> : s \in pd_styles}
    /\ pd_attr \in DecoderAttribs
    /\ pd_chunks \in SeqsUpTo(DecodedChunks, MaxChunks)
    /\ pd_pos = 0 /\ pd_out = <<>> /\ pd_added = <<>> /\ pd_err = "none"

\* d[k] = v
Put(d, k, v) == [x \in (DOMAIN d) \cup {k} |-> IF x = k THEN v ELSE d[x]]

\* _build_dxf_attribs: the attributes that differ from their defaults
build_dxf_attribs(attr) ==
    LET keys == {k \in {"layer"} : attr.layer # "0"}
                \cup {k \in {"color"} : attr.color # 256}
                \cup {k \in {"linetype"} : attr.linetype # "BYLAYER"}
                \cup {k \in {"lineweight"} : attr.lineweight # -3}
                \cup {k \in {"ltscale"} : attr.ltscale # 1}
                \cup {k \in {"true_color"} : attr.true_color # -1}
    IN [k \in keys |-> attr[k]]

\* Vector.angle_deg of a unit vector of the plane
angle_deg(v) ==
    CASE v = <<1, 0, 0>> -> 0
      [] v = <<0, 1, 0>> -> 90
      [] v = <<-1, 0, 0>> -> 180
      [] v = <<0, -1, 0>> -> -90

\* math.degrees of an angle counted in quarter turns
degrees(quarter_turns) == 90 * quarter_turns

Entity2(type, attribs) == [dxftype |-> type, attribs |-> attribs]

\* circular_arc: center and radius are put into attribs, then attribs is
\* built anew (line 225) and only the angles are put into it
circular_arc(chunk, attr) ==
    LET attribs1 == Put(Put(build_dxf_attribs(attr), "center", chunk.center),
                        "radius", chunk.radius)
        start_angle == angle_deg(chunk.start_vec)
        end_angle == start_angle + degrees(chunk.sweep_angle)
        attribs == build_dxf_attribs(attr)
    IN Entity2("ARC", Put(Put(attribs, "start_angle", start_angle), "end_angle", end_angle))

\* Table.has_entry / Table.new of the style table: the name, case insensitive
styles_has_entry(styles, name) == \E s \in styles : lower(s.name) = lower(name)

\* _get_style: the style of a known font, else the font itself as a new
\* style of the document
get_style(font) ==
    IF \E p \in pd_textstyles : p[1] = font
    THEN [style |-> (CHOOSE p \in pd_textstyles : p[1] = font)[2], styles |-> pd_styles,
          added |-> <<>>, err |-> "none"]
    ELSE IF ~pd_doc
    THEN [style |-> font, styles |-> pd_styles, added |-> <<>>, err |-> "none"]
    ELSE IF styles_has_entry(pd_styles, font)
    THEN [style |-> font, styles |-> pd_styles, added |-> <<>>, err |-> "DXFTableEntryError"]
    ELSE [style |-> font, styles |-> pd_styles \cup {Style(font, font)},
          added |-> <<font>>, err |-> "none"]

DecodeArc ==
    /\ pd_err = "none" /\ pd_pos < Len(pd_chunks)
    /\ pd_chunks[pd_pos + 1].type = "CIRCULAR_ARC"
    /\ pd_pos' = pd_pos + 1
    /\ pd_out' = Append(pd_out, circular_arc(pd_chunks[pd_pos + 1], pd_attr))
    /\ UNCHANGED <<pd_doc, pd_styles, pd_textstyles, pd_attr, pd_chunks, pd_added, pd_err>>
    /\ UNCHANGED but_kvars

\* text2 and unicode_text2: attribs['style'] = self._get_style(font, bigfont)
DecodeText2 ==
    /\ pd_err = "none" /\ pd_pos < Len(pd_chunks)
    /\ pd_chunks[pd_pos + 1].type \in {"TEXT2", "UNICODE_TEXT2"}
    /\ LET r == get_style(pd_chunks[pd_pos + 1].font) IN
       /\ pd_styles' = r.styles
       /\ pd_added' = pd_added \o r.added
       /\ pd_err' = r.err
       /\ pd_pos' = pd_pos + 1
       /\ pd_out' = IF r.err # "none" THEN pd_out
                    ELSE Append(pd_out, Entity2("TEXT", Put(build_dxf_attribs(pd_attr),
                                                            "style", r.style)))
    /\ UNCHANGED <<pd_doc, pd_textstyles, pd_attr, pd_chunks>>
    /\ UNCHANGED but_kvars

\* C25: the ARC made of a CIRCULAR_ARC chunk carries the center and the
\* radius of the chunk and the start and end angle derived from the start
\* vector and the sweep angle.
C25_ArcCarriesGeometry ==
    \A i \in 1..Len(pd_out) :
        pd_chunks[i].type = "CIRCULAR_ARC"
        => LET attribs == pd_out[i].attribs
               chunk == pd_chunks[i]
           IN /\ pd_out[i].dxftype = "ARC"
              /\ {"center", "radius", "start_angle", "end_angle"} \subseteq DOMAIN attribs
              /\ attribs["center"] = chunk.center
              /\ attribs["radius"] = chunk.radius
              /\ attribs["start_angle"] = angle_deg(chunk.start_vec)
              /\ attribs["end_angle"] = angle_deg(chunk.start_vec) + degrees(chunk.sweep_angle)

\* C26: with a document attached, a font missing from the style table is
\* added to it once: decoding a text chunk never fails with a
\* duplicate-entry error over a font that an earlier chunk has added.
C26_FontAddedOnce ==
    (pd_doc /\ pd_err = "DXFTableEntryError")
    => \A k \in 1..Len(pd_added) : pd_added[k] # pd_chunks[pd_pos].font


\* ========================================================================
\* virtual_lwpolyline_entities, virtual_polyline2d_entities (explode.py)
\* A vertex is the point (x, y, bulge) that get_points('xyb') and the
\* vertices of a 2D POLYLINE give.
\* ========================================================================
MaxVertices == 3

Point(x, y, bulge) == [x |-> x, y |-> y, bulge |-> bulge]
PolylinePoints == {Point(x, 0, b) : x \in {0, 1}, b \in {0, 1, -1}}

PolylineIdle ==
    /\ pl_type = "" /\ pl_points = <<>> /\ pl_closed = FALSE /\ pl_out = <<>>
    /\ pl_pc = "idle"

PolylineInit ==
    /\ pl_type \in {"LWPOLYLINE", "POLYLINE"}
    /\ pl_points \in SeqsUpTo(PolylinePoints, MaxVertices)
    /\ pl_closed \in BOOLEAN
    /\ pl_out = <<>> /\ pl_pc = "ready"

\* the arc through two points with a bulge, known by what defines it
bulge_to_arc(start_point, end_point, bulge) ==
    [dxftype |-> "ARC", start |-> <<start_point.x, start_point.y>>,
     end |-> <<end_point.x, end_point.y>>, bulge |-> bulge]

Line(start_point, end_point) ==
    [dxftype |-> "LINE", start |-> <<start_point.x, start_point.y>>,
     end |-> <<end_point.x, end_point.y>>, bulge |-> 0]

RECURSIVE virtual_polyline_entities_OwnBulge(_, _)
virtual_polyline_entities_OwnBulge(points, i) ==
    IF i > Len(points) THEN <<>>
    ELSE LET prev_point == points[i - 1]
             point == points[i]
         IN <<IF point.bulge # 0
              THEN bulge_to_arc(prev_point, point, point.bulge)
              ELSE Line(prev_point, point)>>
            \o virtual_polyline_entities_OwnBulge(points, i + 1)

\* _virtual_polyline_entities: the first point only sets prev_point and
\* prev_bulge; every other point yields the segment from prev_point, an ARC
\* when prev_bulge != 0
RECURSIVE virtual_polyline_entities_(_, _)
virtual_polyline_entities_(points, i) ==
    IF i > Len(points) THEN <<>>
    ELSE LET prev_point == points[i - 1]
             point == points[i]
         IN <<IF prev_point.bulge # 0
              THEN bulge_to_arc(prev_point, point, prev_point.bulge)
              ELSE Line(prev_point, point)>>
            \o virtual_polyline_entities_(points, i + 1)

\* both functions: nothing for less than 2 points, the first point appended
\* when the polyline is closed
virtual_entities_of(points, closed) ==
    IF Len(points) < 2 THEN <<>>
    ELSE virtual_polyline_entities_(IF closed THEN Append(points, points[1]) ELSE points, 2)

virtual_lwpolyline_entities ==
    /\ pl_pc = "ready" /\ pl_type = "LWPOLYLINE"
    /\ pl_out' = virtual_entities_of(pl_points, pl_closed)
    /\ pl_pc' = "done"
    /\ UNCHANGED <<pl_type, pl_points, pl_closed>>
    /\ UNCHANGED but_svars

virtual_polyline2d_entities ==
    /\ pl_pc = "ready" /\ pl_type = "POLYLINE"
    /\ pl_out' = virtual_entities_of(pl_points, pl_closed)
    /\ pl_pc' = "done"
    /\ UNCHANGED <<pl_type, pl_points, pl_closed>>
    /\ UNCHANGED but_svars

\* C27: a polyline of n vertices yields nothing when n < 2, else n - 1
\* segments when open and n when closed; segment i starts at vertex i and
\* ends at the next vertex (the first one behind the last), and it is an ARC
\* if and only if the bulge of vertex i is not zero, otherwise a LINE.
C27_SegmentsOfPolyline ==
    pl_pc = "done" =>
      LET n == Len(pl_points) IN
      /\ n < 2 => pl_out = <<>>
      /\ n >= 2 =>
           /\ Len(pl_out) = IF pl_closed THEN n ELSE n - 1
           /\ \A i \in 1..Len(pl_out) :
                LET from == pl_points[i]
                    to == pl_points[(i % n) + 1]
                IN /\ pl_out[i].dxftype = IF from.bulge # 0 THEN "ARC" ELSE "LINE"
                   /\ pl_out[i].start = <<from.x, from.y>>
                   /\ pl_out[i].end = <<to.x, to.y>>
                   /\ pl_out[i].bulge = from.bulge

\* a closed 2D POLYLINE of three vertices: a line, a line, and the arc from
\* the last vertex back to the first
C27_Witness ==
    /\ pl_pc = "done" /\ pl_type = "POLYLINE" /\ pl_closed /\ Len(pl_points) = 3
    /\ pl_points[1].x = 0 /\ pl_points[3].x = 1 /\ pl_points[1].bulge = 0
    /\ Len(pl_out) = 3
    /\ pl_out[1].dxftype = "LINE" /\ pl_out[2].dxftype = "LINE"
    /\ pl_out[3] = [dxftype |-> "ARC", start |-> <<1, 0>>, end |-> <<0, 0>>, bulge |-> 1]


\* ========================================================================
\* Layer (entities/layer.py): freeze, thaw, lock, unlock, transparency
\* ========================================================================
MaxFlags == 260

\* a & b and a | b of integers that are not negative
RECURSIVE BitAnd(_, _)
BitAnd(a, b) ==
    IF a = 0 \/ b = 0 THEN 0
    ELSE (a % 2) * (b % 2) + 2 * BitAnd(a \div 2, b \div 2)
RECURSIVE BitOr(_, _)
BitOr(a, b) ==
    IF a = 0 THEN b ELSE IF b = 0 THEN a
    ELSE (IF a % 2 = 1 \/ b % 2 = 1 THEN 1 ELSE 0) + 2 * BitOr(a \div 2, b \div 2)

FROZEN == 1
THAW == 254
LOCK == 4
UNLOCK == 251

AcCmTransparency == "AcCmTransparency"

\* the values assigned to transparency, in tenths: -0.1, 0, 0.5, 1, 1.1, 2
TransparencyValues == {-1, 0, 5, 10, 11, 20}

\* the raw value of a transparency: int((1 - value) * 255) | 0x02000000
float2transparency(tenths) == ((10 - tenths) * 255) \div 10 + 33554432

LayerIdle ==
    /\ ly_flags = 0 /\ ly_doc = FALSE /\ ly_appids = {} /\ ly_xdata = {}
    /\ ly_op = "idle" /\ ly_err = "none"

LayerInit ==
    /\ ly_flags \in 0..MaxFlags
    /\ ly_doc \in BOOLEAN
    /\ ly_appids \in (IF ly_doc THEN {{"ACAD"}, {"ACAD", AcCmTransparency}} ELSE {{}})
    /\ ly_xdata \in {{}, {<<AcCmTransparency, <<1071, float2transparency(5)>> >>}}
    /\ ly_op = "new" /\ ly_err = "none"

LayerFlagsCall(op, flags) ==
    /\ ly_op # "idle"
    /\ ly_flags' = flags /\ ly_op' = op /\ ly_err' = "none"
    /\ UNCHANGED <<ly_doc, ly_appids, ly_xdata>>
    /\ UNCHANGED but_yvars

Layer_freeze == LayerFlagsCall("freeze", BitOr(ly_flags, FROZEN))
Layer_thaw == LayerFlagsCall("thaw", BitAnd(ly_flags, THAW))
Layer_lock == LayerFlagsCall("lock", BitOr(ly_flags, LOCK))
Layer_unlock == LayerFlagsCall("unlock", BitAnd(ly_flags, UNLOCK))

\* the transparency setter: the AppID entry is created first, then the
\* range is tested
Layer_set_transparency ==
    /\ ly_op # "idle"
    /\ \E value \in TransparencyValues :
         /\ ly_appids' = IF ly_doc /\ AcCmTransparency \notin ly_appids
                         THEN ly_appids \cup {AcCmTransparency} ELSE ly_appids
         /\ IF 0 <= value /\ value <= 10
            THEN /\ ly_xdata' = {x \in ly_xdata : x[1] # AcCmTransparency}
                                \cup {<<AcCmTransparency, <<1071, float2transparency(value)>> >>}
                 /\ ly_err' = "none"
            ELSE /\ ly_err' = "ValueError" /\ UNCHANGED ly_xdata
    /\ ly_op' = "transparency"
    /\ UNCHANGED <<ly_flags, ly_doc>>
    /\ UNCHANGED but_yvars

\* bit k of a flags value
FlagBit(flags, k) == (flags \div (2 ^ k)) % 2

\* C28: thaw() clears only the frozen bit (bit 0) and unlock() only the lock
\* bit (bit 2): every other bit of flags is after the call what it was
\* before, as for freeze() and lock().
C28_OnlyOneBitChanges ==
    [][/\ ly_op' \in {"thaw", "freeze"}
          => \A k \in 1..9 : FlagBit(ly_flags', k) = FlagBit(ly_flags, k)
       /\ ly_op' \in {"unlock", "lock"}
          => \A k \in (0..9) \ {2} : FlagBit(ly_flags', k) = FlagBit(ly_flags, k)]_vars

\* C29: a transparency outside 0..1 raises ValueError, and the failed call
\* changes neither the extended data of the layer nor the AppID table.
C29_FailedSetChangesNothing ==
    [][(ly_op' = "transparency" /\ ly_err' = "ValueError")
       => (ly_xdata' = ly_xdata /\ ly_appids' = ly_appids)]_vars


\* ========================================================================
\* MText (entities/mtext.py): split_mtext_string, export_mtext
\* ========================================================================
MaxMText == 4
FillLen == 247

\* a text is a sequence of characters
MTextAlphabet == {"a", "^", "\n"}
ShortTexts == UNION {[1..n -> MTextAlphabet] : n \in 0..MaxMText}
Fill == [i \in 1..FillLen |-> "a"]

\* short texts, and texts that reach over the 250 characters of one chunk
MTexts == ShortTexts \cup {Fill \o t : t \in ShortTexts}
\* short texts are split with small sizes, the long ones with 250
SplitSizes(text) == IF Len(text) > MaxMText THEN {250} ELSE {2, 3, 250}

MTextIdle ==
    /\ ms_text = <<>> /\ ms_size = 0 /\ ms_chunks = <<>> /\ ms_tags = <<>>
    /\ ms_pc = "idle"

MTextInit ==
    /\ ms_text \in MTexts
    /\ ms_size = 0 /\ ms_chunks = <<>> /\ ms_tags = <<>>
    /\ ms_pc = "new"

\* s[pos:pos + size], pos counted from 0
StrSlice(s, pos, size) ==
    SubSeq(s, pos + 1, IF pos + size < Len(s) THEN pos + size ELSE Len(s))

RECURSIVE split_mtext_loop(_, _, _, _)
split_mtext_loop(s, size, pos, chunks) ==
    LET chunk == StrSlice(s, pos, size) IN
    IF Len(chunk) = 0 THEN chunks
    ELSE IF Len(chunk) < size THEN Append(chunks, chunk)
    ELSE IF chunk[Len(chunk)] = "^"
         THEN split_mtext_loop(s, size, pos + size - 1,
                               Append(chunks, SubSeq(chunk, 1, Len(chunk) - 1)))
         ELSE split_mtext_loop(s, size, pos + size, Append(chunks, chunk))

split_mtext_string(s, size) == split_mtext_loop(s, size, 0, <<>>)

\* self.text.replace('\n', '\\P')
RECURSIVE replace_newlines(_)
replace_newlines(s) ==
    IF Len(s) = 0 THEN <<>>
    ELSE IF Len(s) = 1 THEN (IF s[1] = "\n" THEN <<"\\", "P">> ELSE s)
    ELSE LET half == Len(s) \div 2
         IN replace_newlines(SubSeq(s, 1, half))
            \o replace_newlines(SubSeq(s, half + 1, Len(s)))

SplitMText ==
    /\ ms_pc = "new"
    /\ \E size \in SplitSizes(ms_text) :
         /\ ms_size' = size
         /\ ms_chunks' = split_mtext_string(ms_text, size)
    /\ ms_pc' = "split"
    /\ UNCHANGED <<ms_text, ms_tags>>
    /\ UNCHANGED but_zvars

export_mtext ==
    /\ ms_pc = "new"
    /\ LET txt == replace_newlines(ms_text)
           str_chunks == split_mtext_string(txt, 250)
           all == IF Len(str_chunks) = 0 THEN <<"">> ELSE str_chunks
       IN /\ ms_size' = 250
          /\ ms_chunks' = str_chunks
          /\ ms_tags' = [i \in 1..Len(all) |->
                           <<IF i < Len(all) THEN 3 ELSE 1, all[i]>>]
    /\ ms_pc' = "exported"
    /\ UNCHANGED ms_text
    /\ UNCHANGED but_zvars

\* C30: split_mtext_string never splits at '^': no chunk but the last ends
\* with '^', and no chunk is longer than size.
C30_NeverSplitsAtCaret ==
    ms_pc \in {"split", "exported"}
    => \A i \in 1..Len(ms_chunks) :
         /\ Len(ms_chunks[i]) <= ms_size
         /\ (i < Len(ms_chunks) /\ Len(ms_chunks[i]) > 0)
            => ms_chunks[i][Len(ms_chunks[i])] # "^"


\* ========================================================================
\* Specifications
\* ========================================================================
\* the components modelled after the table at rest
RestIdle == ViewportTableIdle /\ RenameIdle /\ VirtualIdle /\ ExplodeIdle /\ ProxyGraphicIdle /\ BinaryExportIdle /\ Matrix44Idle /\ DimensionIdle /\ PlainTextIdle /\ ProxyDecodeIdle /\ PolylineIdle /\ LayerIdle /\ MTextIdle

InitValidator == ValidatorInit /\ CompilerIdle /\ LinkerIdle /\ TableIdle /\ RestIdle
NextValidator == ValidateTag \/ ValidateEnd
SpecValidator == InitValidator /\ [][NextValidator]_vars

InitCompiler == ValidatorIdle /\ CompilerInit /\ LinkerIdle /\ TableIdle /\ RestIdle
NextCompiler == CompileStop \/ CompilePoint \/ CompileBinary \/ CompileSingle
SpecCompiler == InitCompiler /\ [][NextCompiler]_vars

InitLinker == ValidatorIdle /\ CompilerIdle /\ LinkerInit /\ TableIdle /\ RestIdle
NextLinker == LinkEntity
SpecLinker == InitLinker /\ [][NextLinker]_vars

InitTable == ValidatorIdle /\ CompilerIdle /\ LinkerIdle /\ TableInit /\ RestIdle
NextTable ==
    \/ Table_new \/ CreateForeign \/ Table_add_entry \/ Table_remove
    \/ Table_discard \/ Table_duplicate_entry \/ Table_replace
SpecTable == InitTable /\ [][NextTable]_vars

BaseIdle == ValidatorIdle /\ CompilerIdle /\ LinkerIdle /\ TableIdle

InitViewportTable == BaseIdle /\ ViewportTableInit /\ RenameIdle /\ ExplodeIdle
    /\ VirtualIdle /\ ProxyGraphicIdle /\ BinaryExportIdle /\ Matrix44Idle
    /\ DimensionIdle /\ PlainTextIdle /\ ProxyDecodeIdle /\ PolylineIdle /\ LayerIdle
    /\ MTextIdle
NextViewportTable == ViewportTable_new \/ ViewportTable_remove
SpecViewportTable == InitViewportTable /\ [][NextViewportTable]_vars

InitRename == BaseIdle /\ RenameInit /\ ViewportTableIdle /\ ExplodeIdle /\ VirtualIdle
    /\ ProxyGraphicIdle /\ BinaryExportIdle /\ Matrix44Idle /\ DimensionIdle
    /\ PlainTextIdle /\ ProxyDecodeIdle /\ PolylineIdle /\ LayerIdle /\ MTextIdle
NextRename == Layer_rename
SpecRename == InitRename /\ [][NextRename]_vars

InitExplode == BaseIdle /\ ExplodeInit /\ ViewportTableIdle /\ RenameIdle /\ VirtualIdle
    /\ ProxyGraphicIdle /\ BinaryExportIdle /\ Matrix44Idle /\ DimensionIdle
    /\ PlainTextIdle /\ ProxyDecodeIdle /\ PolylineIdle /\ LayerIdle /\ MTextIdle
NextExplode == explode_entity \/ explode_block_reference
SpecExplode == InitExplode /\ [][NextExplode]_vars

InitVirtual == BaseIdle /\ VirtualInit /\ ViewportTableIdle /\ RenameIdle /\ ExplodeIdle
    /\ ProxyGraphicIdle /\ BinaryExportIdle /\ Matrix44Idle /\ DimensionIdle
    /\ PlainTextIdle /\ ProxyDecodeIdle /\ PolylineIdle /\ LayerIdle /\ MTextIdle
NextVirtual == VirtualBegin \/ DisassembleNext \/ TransformItem
SpecVirtual == InitVirtual /\ [][NextVirtual]_vars

InitProxyGraphic == BaseIdle /\ ProxyGraphicInit /\ ViewportTableIdle /\ RenameIdle
    /\ ExplodeIdle /\ VirtualIdle /\ BinaryExportIdle /\ Matrix44Idle /\ DimensionIdle
    /\ PlainTextIdle /\ ProxyDecodeIdle /\ PolylineIdle /\ LayerIdle /\ MTextIdle
NextProxyGraphic == virtual_entities_end \/ virtual_entities_truncated \/ virtual_entities_unknown \/ virtual_entities_chunk
SpecProxyGraphic == InitProxyGraphic /\ [][NextProxyGraphic]_vars

InitBinaryExport == BaseIdle /\ BinaryExportInit /\ ViewportTableIdle /\ RenameIdle
    /\ ExplodeIdle /\ VirtualIdle /\ ProxyGraphicIdle /\ Matrix44Idle /\ DimensionIdle
    /\ PlainTextIdle /\ ProxyDecodeIdle /\ PolylineIdle /\ LayerIdle /\ MTextIdle
NextBinaryExport == export_proxy_graphic \/ VBAProject_export_data
SpecBinaryExport == InitBinaryExport /\ [][NextBinaryExport]_vars

InitMatrix44 == BaseIdle /\ Matrix44Init /\ ViewportTableIdle /\ RenameIdle /\ ExplodeIdle
    /\ VirtualIdle /\ ProxyGraphicIdle /\ BinaryExportIdle /\ DimensionIdle
    /\ PlainTextIdle /\ ProxyDecodeIdle /\ PolylineIdle /\ LayerIdle /\ MTextIdle
NextMatrix44 == Matrix44_mul \/ Matrix44_determinant \/ Matrix44_inverse
SpecMatrix44 == InitMatrix44 /\ [][NextMatrix44]_vars

InitDimension == BaseIdle /\ DimensionInit /\ ViewportTableIdle /\ RenameIdle
    /\ ExplodeIdle /\ VirtualIdle /\ ProxyGraphicIdle /\ BinaryExportIdle /\ Matrix44Idle
    /\ PlainTextIdle /\ ProxyDecodeIdle /\ PolylineIdle /\ LayerIdle /\ MTextIdle
NextDimension == Dimension_export_entity
SpecDimension == InitDimension /\ [][NextDimension]_vars

InitPlainText == BaseIdle /\ PlainTextInit /\ ViewportTableIdle /\ RenameIdle
    /\ ExplodeIdle /\ VirtualIdle /\ ProxyGraphicIdle /\ BinaryExportIdle /\ Matrix44Idle
    /\ DimensionIdle /\ ProxyDecodeIdle /\ PolylineIdle /\ LayerIdle /\ MTextIdle
NextPlainText == PlainText
SpecPlainText == InitPlainText /\ [][NextPlainText]_vars

InitProxyDecode == BaseIdle /\ ProxyDecodeInit /\ ViewportTableIdle /\ RenameIdle
    /\ ExplodeIdle /\ VirtualIdle /\ ProxyGraphicIdle /\ BinaryExportIdle /\ Matrix44Idle
    /\ DimensionIdle /\ PlainTextIdle /\ PolylineIdle /\ LayerIdle /\ MTextIdle
NextProxyDecode == DecodeArc \/ DecodeText2
SpecProxyDecode == InitProxyDecode /\ [][NextProxyDecode]_vars

InitPolyline == BaseIdle /\ PolylineInit /\ ViewportTableIdle /\ RenameIdle /\ ExplodeIdle
    /\ VirtualIdle /\ ProxyGraphicIdle /\ BinaryExportIdle /\ Matrix44Idle
    /\ DimensionIdle /\ PlainTextIdle /\ ProxyDecodeIdle /\ LayerIdle /\ MTextIdle
NextPolyline == virtual_lwpolyline_entities \/ virtual_polyline2d_entities
SpecPolyline == InitPolyline /\ [][NextPolyline]_vars

InitLayer == BaseIdle /\ LayerInit /\ ViewportTableIdle /\ RenameIdle /\ ExplodeIdle
    /\ VirtualIdle /\ ProxyGraphicIdle /\ BinaryExportIdle /\ Matrix44Idle
    /\ DimensionIdle /\ PlainTextIdle /\ ProxyDecodeIdle /\ PolylineIdle /\ MTextIdle
NextLayer == Layer_freeze \/ Layer_thaw \/ Layer_lock \/ Layer_unlock \/ Layer_set_transparency
SpecLayer == InitLayer /\ [][NextLayer]_vars

InitMText == BaseIdle /\ MTextInit /\ ViewportTableIdle /\ RenameIdle /\ ExplodeIdle
    /\ VirtualIdle /\ ProxyGraphicIdle /\ BinaryExportIdle /\ Matrix44Idle
    /\ DimensionIdle /\ PlainTextIdle /\ ProxyDecodeIdle /\ PolylineIdle /\ LayerIdle
NextMText == SplitMText \/ export_mtext
SpecMText == InitMText /\ [][NextMText]_vars

====
